---- MODULE Spec2Model ----
(***************************************************************************)
(* A model of aiocogeo's partial-read core (src/aiocogeo/partial_reads.py) *)
(* and of the storage layer it reads through (src/aiocogeo/filesystems.py).*)
(*                                                                         *)
(* Spec          the two fetch orchestrators, _request_tiles and           *)
(*               _request_merged_tiles, run as asyncio tasks               *)
(* SpecPost      _postprocess / _clip_array                                *)
(* SpecOverview  _get_overview_level                                       *)
(* SpecGeometry  _calculate_image_tiles                                    *)
(* SpecExtract   _merge_range_requests and _extract_tile on one row        *)
(* SpecFs        _range_request of the three backends, one request         *)
(* SpecRead      a partial read from overview selection to its result      *)
(* SpecLayout    merged-range reads over directories in any order          *)
(* SpecStitch    _stitch_image_tile on tiles of any shape                  *)
(* SpecStore     range_request: cache, transport failures and counters     *)
(***************************************************************************)
EXTENDS Integers, Sequences, FiniteSets, TLC

VARIABLES
    \* the source image and the request: inputs of one partial read
    is_masked,      \* the image has an internal mask
    nodata,         \* [some, value]: the nodata value, some = FALSE for None
    ifds,           \* image directories, one per overview level
    mask_ifds,      \* mask directories, one per overview level; empty when none
    file,           \* the bytes of the file
    img_tiles,      \* the TileMetadata of the read
    \* the fetch orchestrators
    call,           \* the orchestrator running now: "idle", "tiles" or "merged"
    outcome,        \* per orchestrator: "pending", "running", "returned", "failed"
    returned,       \* per orchestrator: the array handed to the caller
    fault,          \* per orchestrator: a fetch or a decode of the call has failed
    img_arr,        \* the Mosaic Buffer of the running call
    tasks,          \* the tasks the running call created, in creation order
    requests,       \* the range requests the running call issued, in order
    stitchCount,    \* per grid position: how many stitches the running call made
    consulted,      \* per row task: the task looked up the mask directory
    \* _postprocess
    pp_arr,         \* the mosaic handed to _postprocess
    pp_tiles,       \* its TileMetadata
    pp_out_shape,   \* out_shape: <<>> for None, else <<width, height>>
    pp_result,      \* the array returned
    pp_pc,          \* "idle", "done", "failed"
    \* _get_overview_level
    ov_src_res,     \* geotransform().a, the native pixel size
    ov_overviews,   \* self.overviews, the decimation factor of each overview
    ov_strategy,    \* config.ZOOM_LEVEL_STRATEGY
    ov_bounds,      \* the request bounds <<left, bottom, right, top>>
    ov_shape,       \* the request shape <<width, height>>
    ov_level,       \* the level returned
    ov_pc,          \* "idle", "done", "failed"
    \* _calculate_image_tiles
    gm_gt,          \* the north-up geotransform of the level: [a, c, f], e = -a
    gm_bounds,      \* the request bounds <<left, bottom, right, top>>
    gm_tiles,       \* the TileMetadata returned
    gm_pc,          \* "idle", "done"
    \* _merge_range_requests and _extract_tile on one row
    ex_indices,     \* tile_indices of the row
    ex_response,    \* the bytes the merged range request returned
    ex_tiles,       \* the bytes _extract_tile cut out, one entry per tile
    ex_pc,          \* "idle", "fetched", "done"
    \* Filesystem._range_request
    fs_backend,     \* "local", "http" or "s3"
    fs_start,       \* the argument start
    fs_offset,      \* the argument offset (length minus one)
    fs_asked,       \* what the transport was asked for
    fs_data,        \* the bytes returned
    fs_pc,          \* "idle", "done"
    \* _stitch_image_tile on one tile
    st_arr,         \* the tile array handed to the stitch
    st_fused,       \* the Mosaic Buffer
    st_pos,         \* <<idx, idy>>, the grid position stitched
    st_pc,          \* "idle", "done", "failed"
    \* a Filesystem object answering range_request calls one after another
    rq_backend,     \* "local", "http" or "s3"
    rq_config,      \* [header, block]: ENABLE_HEADER_CACHE, ENABLE_BLOCK_CACHE
    rq_cache,       \* the memory cache: the set of [key, value] it holds
    rq_counters,    \* [total_requests, total_bytes_requested, requested_ranges]
    rq_history      \* the calls made so far, in order, with what each did

sourceVars == <<is_masked, nodata, ifds, mask_ifds, file, img_tiles>>
orchVars == <<call, outcome, returned, fault, img_arr, tasks, requests, stitchCount, consulted>>
ppVars == <<pp_arr, pp_tiles, pp_out_shape, pp_result, pp_pc>>
ovVars == <<ov_src_res, ov_overviews, ov_strategy, ov_bounds, ov_shape, ov_level, ov_pc>>
gmVars == <<gm_gt, gm_bounds, gm_tiles, gm_pc>>
exVars == <<ex_indices, ex_response, ex_tiles, ex_pc>>
fsVars == <<fs_backend, fs_start, fs_offset, fs_asked, fs_data, fs_pc>>
stVars == <<st_arr, st_fused, st_pos, st_pc>>
rqVars == <<rq_backend, rq_config, rq_cache, rq_counters, rq_history>>
vars == <<sourceVars, orchVars, ppVars, ovVars, gmVars, exVars, fsVars, stVars, rqVars>>

----------------------------------------------------------------------------
(* Bounds of the model *)

\* tiles per row and per column of the image's tile grid (ifd.tile_count)
GridW == 2
GridH == 2
\* the largest number of tiles a modelled read covers
MaxTiles == 4
\* pixels per tile and bands per pixel
TileWidth == 2
TileHeight == 1
Bands == 2
\* bytes before the first tile of the file
HeaderLen == 1

Min(a, b) == IF a < b THEN a ELSE b
Max(a, b) == IF a > b THEN a ELSE b

----------------------------------------------------------------------------
(* numpy arrays: a shape <<bands, rows, cols>>, the values, and the mask.   *)
(* kind is "ndarray" or "masked"; nomask says that a masked array carries   *)
(* numpy's scalar nomask instead of a mask array, and mask is then the      *)
(* all-False array numpy.ma.getmaskarray would give.                        *)

Cells(shape) == (0 .. shape[1] - 1) \X (0 .. shape[2] - 1) \X (0 .. shape[3] - 1)

NoMaskOf(shape) == [c \in Cells(shape) |-> FALSE]

\* np.zeros(shape).astype(dtype)
Zeros(shape) ==
    [kind |-> "ndarray", shape |-> shape, data |-> [c \in Cells(shape) |-> 0],
     nomask |-> TRUE, mask |-> NoMaskOf(shape)]

\* np.ma.masked_array(arr): the mask stays nomask
MaskedArray(arr) == [arr EXCEPT !.kind = "masked"]

\* np.ma.masked_array(arr, mask)
MaskedArrayWith(arr, mask) ==
    [arr EXCEPT !.kind = "masked", !.nomask = FALSE, !.mask = mask]

\* np.ma.is_masked(arr): a masked array with at least one masked cell
IsMasked(arr) ==
    arr.kind = "masked" /\ ~arr.nomask /\ \E c \in DOMAIN arr.mask : arr.mask[c]

\* the array a caller is handed when nothing was returned
NoArray == Zeros(<<0, 0, 0>>)

\* a[lo:hi] of Python on a sequence of length n: the index range it selects
PyIndex(i, n) == IF i < 0 THEN Max(i + n, 0) ELSE Min(i, n)
PySliceLo(lo, hi, n) == PyIndex(lo, n)
PySliceHi(lo, hi, n) == Max(PyIndex(lo, n), PyIndex(hi, n))

\* s[lo:hi] of Python on bytes
PySlice(s, lo, hi) ==
    SubSeq(s, PySliceLo(lo, hi, Len(s)) + 1, PySliceHi(lo, hi, Len(s)))

----------------------------------------------------------------------------
(* The file and its tile directories.  Tiles are written in index order,   *)
(* each image tile followed by its mask tile when the image has an         *)
(* internal mask, with gap unused bytes after every block.                 *)

TileCount == GridW * GridH
TileIndices == 0 .. TileCount - 1

\* compressed size of image tile i and of mask tile i
ImageByteCount(i) == 1 + (i % 2)
MaskByteCount(i) == 1

RECURSIVE ImageOffset(_, _, _)
ImageOffset(i, masked, gap) ==
    IF i = 0 THEN HeaderLen
    ELSE ImageOffset(i - 1, masked, gap) + ImageByteCount(i - 1) + gap
         + (IF masked THEN MaskByteCount(i - 1) + gap ELSE 0)

MaskOffset(i, gap) == ImageOffset(i, TRUE, gap) + ImageByteCount(i)

FileLen(masked, gap) == ImageOffset(TileCount, masked, gap)

\* the bytes of the file: every position holds a different value
FileBytes(masked, gap) == [p \in 1 .. FileLen(masked, gap) |-> (p * 7) % 251]

\* ImageIFD of an overview level: TileOffsets, TileByteCounts, tile_count
ImageIFD(masked, gap) ==
    [TileOffsets |-> [i \in TileIndices |-> ImageOffset(i, masked, gap)],
     TileByteCounts |-> [i \in TileIndices |-> ImageByteCount(i)],
     tile_count |-> <<GridW, GridH>>]

\* MaskIFD of an overview level
MaskIFD(gap) ==
    [TileOffsets |-> [i \in TileIndices |-> MaskOffset(i, gap)],
     TileByteCounts |-> [i \in TileIndices |-> MaskByteCount(i)],
     tile_count |-> <<GridW, GridH>>]

\* the same file read through directories that list its blocks in reverse:
\* tile i lies where the directories above place tile TileCount - 1 - i
ImageIFDReversed(masked, gap) ==
    [TileOffsets |-> [i \in TileIndices |-> ImageOffset(TileCount - 1 - i, masked, gap)],
     TileByteCounts |-> [i \in TileIndices |-> ImageByteCount(TileCount - 1 - i)],
     tile_count |-> <<GridW, GridH>>]

MaskIFDReversed(gap) ==
    [TileOffsets |-> [i \in TileIndices |-> MaskOffset(TileCount - 1 - i, gap)],
     TileByteCounts |-> [i \in TileIndices |-> MaskByteCount(TileCount - 1 - i)],
     tile_count |-> <<GridW, GridH>>]

\* self.mask_ifds: a mask directory per level only when the image has an
\* internal mask
MaskIfdsOf(masked, gap) == IF masked THEN <<MaskIFD(gap)>> ELSE <<>>

\* lst[i] of Python for i >= 0 raises IndexError past the end of the list
HasIndex(lst, i) == i + 1 \in DOMAIN lst
At(lst, i) == lst[i + 1]

----------------------------------------------------------------------------
(* filesystems.py: the bytes a range request reads *)

\* LocalFilesystem._range_request: seek(start), read(offset + 1); read(-1)
\* reads up to the end of the file
RangeRead(bytes, start, offset) ==
    IF offset + 1 >= 0 THEN PySlice(bytes, start, start + offset + 1)
    ELSE PySlice(bytes, start, Len(bytes))

\* seek refuses a negative position and read a length below -1
RangeReadRaises(start, offset) == start < 0 \/ offset + 1 < -1

----------------------------------------------------------------------------
(* The format collaborator: decompression of one tile's bytes *)

RECURSIVE ByteSum(_)
ByteSum(bytes) ==
    IF bytes = <<>> THEN 0 ELSE (Head(bytes) + 3 * ByteSum(Tail(bytes))) % 256

TileShape(tiles) == <<tiles.bands, tiles.tile_height, tiles.tile_width>>

\* ifd._decompress(tile_bytes): an array of shape (bands, tile_height, tile_width)
Decompress(bytes, shape) ==
    LET sum == ByteSum(bytes)
    IN  [kind |-> "ndarray", shape |-> shape,
         data |-> [c \in Cells(shape) |-> (sum + 11 * c[1] + 5 * c[2] + 3 * c[3]) % 256],
         nomask |-> TRUE, mask |-> NoMaskOf(shape)]

\* ifd._decompress_mask(mask_bytes): one boolean band (1, tile_height, tile_width)
DecompressMask(bytes, shape) ==
    LET sum == ByteSum(bytes)
    IN  [c \in Cells(<<1, shape[2], shape[3]>>) |-> (sum + c[2] + c[3]) % 2 = 1]

\* np.broadcast_to(mask_decoded, decoded.shape), not inverted
BroadcastOnly(mask_decoded, shape) ==
    [c \in Cells(shape) |-> mask_decoded[<<0, c[2], c[3]>>]]

\* np.invert(np.broadcast_to(mask_decoded, decoded.shape))
InvertBroadcast(mask_decoded, shape) ==
    [c \in Cells(shape) |-> ~mask_decoded[<<0, c[2], c[3]>>]]

----------------------------------------------------------------------------
(* PartialReadBase *)

\* _add_mask answering True for every image
AddMaskAlways(masked, nd) == TRUE

\* _add_mask
AddMask(masked, nd) ==
    IF masked THEN TRUE
    ELSE IF nd.some THEN TRUE
    ELSE FALSE

FusedShape(tiles) ==
    <<tiles.bands,
      (tiles.ymax + 1 - tiles.ymin) * tiles.tile_height,
      (tiles.xmax + 1 - tiles.xmin) * tiles.tile_width>>

\* _init_array
InitArray(tiles, masked, nd) ==
    IF AddMask(masked, nd) THEN MaskedArray(Zeros(FusedShape(tiles)))
    ELSE Zeros(FusedShape(tiles))

\* the slice bounds of _stitch_image_tile, off by one in the row stop
SlotRowStopWide(idy, tile_height) == (idy + 2) * tile_height

\* the slice bounds of _stitch_image_tile
SlotRowStart(idy, tile_height) == idy * tile_height
SlotRowStop(idy, tile_height) == (idy + 1) * tile_height
SlotColStart(idx, tile_width) == idx * tile_width
SlotColStop(idx, tile_width) == (idx + 1) * tile_width

\* first row, first column and shape of the block of fused_arr the slices select
SlotRow0(shape, idy, th) ==
    PySliceLo(SlotRowStart(idy, th), SlotRowStop(idy, th), shape[2])
SlotCol0(shape, idx, tw) ==
    PySliceLo(SlotColStart(idx, tw), SlotColStop(idx, tw), shape[3])
SlotShape(shape, idx, idy, tw, th) ==
    <<shape[1],
      PySliceHi(SlotRowStart(idy, th), SlotRowStop(idy, th), shape[2])
          - SlotRow0(shape, idy, th),
      PySliceHi(SlotColStart(idx, tw), SlotColStop(idx, tw), shape[3])
          - SlotCol0(shape, idx, tw)>>
\* cell c lies in the block of shape slot that starts at row r0, column c0
InSlot(c, r0, c0, slot) ==
    /\ c[2] >= r0
    /\ c[2] < r0 + slot[2]
    /\ c[3] >= c0
    /\ c[3] < c0 + slot[3]

\* numpy broadcasting of a value of shape s into a block of shape t
Broadcasts(s, t) == \A d \in 1 .. 3 : s[d] = t[d] \/ s[d] = 1

\* the cell of the value that lands in cell c of the block starting at (r0, c0)
SourceCell(s, c, r0, c0) ==
    <<IF s[1] = 1 THEN 0 ELSE c[1],
      IF s[2] = 1 THEN 0 ELSE c[2] - r0,
      IF s[3] = 1 THEN 0 ELSE c[3] - c0>>

\* _stitch_image_tile raises: the value does not broadcast into the block, or
\* fused_arr is a plain ndarray, which has no mask to assign to
StitchRaises(arr, fused_arr, idx, idy, tw, th) ==
    \/ ~Broadcasts(arr.shape, SlotShape(fused_arr.shape, idx, idy, tw, th))
    \/ IsMasked(arr) /\ fused_arr.kind = "ndarray"

\* _stitch_image_tile: fused_arr after the call (it is changed in place)
StitchImageTile(arr, fused_arr, idx, idy, tw, th) ==
    LET shape == fused_arr.shape
        r0 == SlotRow0(shape, idy, th)
        c0 == SlotCol0(shape, idx, tw)
        slot == SlotShape(shape, idx, idy, tw, th)
        from == arr.shape
        src(c) == SourceCell(from, c, r0, c0)
        hit(c) == InSlot(c, r0, c0, slot)
        \* the mask numpy finds on the value: getmask(arr)
        valueHasMask == arr.kind = "masked" /\ ~arr.nomask
        data == [c \in Cells(shape) |->
                    IF hit(c) THEN arr.data[src(c)] ELSE fused_arr.data[c]]
        mask == [c \in Cells(shape) |->
                    IF hit(c) THEN (valueHasMask /\ arr.mask[src(c)])
                    ELSE fused_arr.mask[c]]
    IN  IF ~Broadcasts(from, slot)
        THEN fused_arr
        ELSE IF fused_arr.kind = "ndarray"
        THEN [fused_arr EXCEPT !.data = data]
        ELSE [fused_arr EXCEPT !.data = data, !.mask = mask,
                               !.nomask = fused_arr.nomask /\ ~valueHasMask]

\* _clip_array with the two origins exchanged
ClipArraySwapped(arr, tiles) ==
    LET r0 == PySliceLo(tiles.tlx, tiles.tlx + tiles.height, arr.shape[2])
        r1 == PySliceHi(tiles.tlx, tiles.tlx + tiles.height, arr.shape[2])
        c0 == PySliceLo(tiles.tly, tiles.tly + tiles.width, arr.shape[3])
        c1 == PySliceHi(tiles.tly, tiles.tly + tiles.width, arr.shape[3])
        shape == <<arr.shape[1], r1 - r0, c1 - c0>>
    IN  [kind |-> arr.kind, shape |-> shape,
         data |-> [c \in Cells(shape) |-> arr.data[<<c[1], c[2] + r0, c[3] + c0>>]],
         nomask |-> arr.nomask,
         mask |-> [c \in Cells(shape) |-> arr.mask[<<c[1], c[2] + r0, c[3] + c0>>]]]

\* _clip_array
ClipArray(arr, tiles) ==
    LET r0 == PySliceLo(tiles.tly, tiles.tly + tiles.height, arr.shape[2])
        r1 == PySliceHi(tiles.tly, tiles.tly + tiles.height, arr.shape[2])
        c0 == PySliceLo(tiles.tlx, tiles.tlx + tiles.width, arr.shape[3])
        c1 == PySliceHi(tiles.tlx, tiles.tlx + tiles.width, arr.shape[3])
        shape == <<arr.shape[1], r1 - r0, c1 - c0>>
    IN  [kind |-> arr.kind, shape |-> shape,
         data |-> [c \in Cells(shape) |-> arr.data[<<c[1], c[2] + r0, c[3] + c0>>]],
         nomask |-> arr.nomask,
         mask |-> [c \in Cells(shape) |-> arr.mask[<<c[1], c[2] + r0, c[3] + c0>>]]]

\* the source index Image.resize picks for index i when n entries become m
\* (nearest neighbour)
NearestIndex(i, n, m) == ((2 * i + 1) * n) \div (2 * m)

\* _resample raises: Image.fromarray refuses an empty array, and
\* clipped.mask[0, ...] fails on an array without a mask array
ResampleRaises(clipped, out_shape, masked, nd) ==
    \/ clipped.shape[2] = 0
    \/ clipped.shape[3] = 0
    \/ AddMask(masked, nd) /\ (clipped.kind = "ndarray" \/ clipped.nomask)

\* _resample: the values resized to (out_shape[0], out_shape[1]) = (width,
\* height); with _add_mask the mask of band 0 is resized and stacked on all bands
Resample(clipped, tiles, out_shape, masked, nd) ==
    LET shape == <<clipped.shape[1], out_shape[2], out_shape[1]>>
        from(c) == <<c[1], NearestIndex(c[2], clipped.shape[2], shape[2]),
                     NearestIndex(c[3], clipped.shape[3], shape[3])>>
        resized == [kind |-> "ndarray", shape |-> shape,
                    data |-> [c \in Cells(shape) |-> clipped.data[from(c)]],
                    nomask |-> TRUE, mask |-> NoMaskOf(shape)]
        resized_mask ==
            [c \in Cells(shape) |-> clipped.mask[<<0, from(c)[2], from(c)[3]>>]]
    IN  IF AddMask(masked, nd) THEN MaskedArrayWith(resized, resized_mask)
        ELSE resized

\* _postprocess
Postprocess(arr, tiles, out_shape, masked, nd) ==
    LET clipped == ClipArray(arr, tiles)
    IN  IF out_shape = <<>> THEN clipped
        ELSE Resample(clipped, tiles, out_shape, masked, nd)

PostprocessRaises(arr, tiles, out_shape, masked, nd) ==
    /\ out_shape # <<>>
    /\ ResampleRaises(ClipArray(arr, tiles), out_shape, masked, nd)


----------------------------------------------------------------------------
(* PartialReadInterface *)

\* _extract_tile
ExtractTile(ifd, img_bytes, tile_index, offset) ==
    LET byte_count == ifd.TileByteCounts[tile_index]
        tile_start == ifd.TileOffsets[tile_index] - offset
    IN  PySlice(img_bytes, tile_start, tile_start + byte_count)

\* max(tile_indices), min(tile_indices)
MaxOf(S) == CHOOSE m \in S : \A x \in S : x <= m
MinOf(S) == CHOOSE m \in S : \A x \in S : m <= x
SeqRange(s) == {s[i] : i \in DOMAIN s}

\* _merge_range_requests, asking for one byte too many
MergeRangeRequestsLong(ifd, tile_indices, offset) ==
    LET last == MaxOf(SeqRange(tile_indices))
        byte_count == ifd.TileOffsets[last] + ifd.TileByteCounts[last]
    IN  <<offset, byte_count - offset>>

\* _merge_range_requests: <<start, length - 1>> of the merged request
MergeRangeRequests(ifd, tile_indices, offset) ==
    LET last == MaxOf(SeqRange(tile_indices))
        byte_count == ifd.TileOffsets[last] + ifd.TileByteCounts[last]
    IN  <<offset, byte_count - offset - 1>>

----------------------------------------------------------------------------
(* get_tile, the abstract method of PartialReadBase: one tile's byte range  *)
(* is fetched and decoded; the internal mask tile, when the image has one,  *)
(* is fetched and decoded too and its complement attached; without an       *)
(* internal mask the cells holding the nodata value are masked.             *)

TileIndex(ifd, xtile, ytile) == (ytile * ifd.tile_count[1]) + xtile

Request(kind, row, range) ==
    [kind |-> kind, row |-> row, start |-> range[1], length_minus_one |-> range[2]]

TileRange(ifd, i) == <<ifd.TileOffsets[i], ifd.TileByteCounts[i] - 1>>

GetTileRequests(x, y, z) ==
    LET ifd == At(ifds, z)
        i == TileIndex(ifd, x, y)
    IN  <<Request("image", y, TileRange(ifd, i))>>
        \o (IF is_masked
            THEN <<Request("mask", y, TileRange(At(mask_ifds, z), i))>>
            ELSE <<>>)

\* np.ma.masked_values(tile, nodata): nomask when no cell holds the value
MaskedValues(arr, value) ==
    IF \E c \in DOMAIN arr.data : arr.data[c] = value
    THEN MaskedArrayWith(arr, [c \in DOMAIN arr.data |-> arr.data[c] = value])
    ELSE MaskedArray(arr)

GetTile(x, y, z) ==
    LET ifd == At(ifds, z)
        i == TileIndex(ifd, x, y)
        shape == TileShape(img_tiles)
        range == TileRange(ifd, i)
        decoded == Decompress(RangeRead(file, range[1], range[2]), shape)
        mrange == TileRange(At(mask_ifds, z), i)
        mask_decoded == DecompressMask(RangeRead(file, mrange[1], mrange[2]), shape)
    IN  IF is_masked
        THEN MaskedArrayWith(decoded, InvertBroadcast(mask_decoded, shape))
        ELSE IF nodata.some THEN MaskedValues(decoded, nodata.value)
        ELSE decoded

----------------------------------------------------------------------------
(* The tasks of a call.  pc: "created" (asyncio.create_task was called),    *)
(* "get_tile" (a tile task awaits get_tile), "fetching" (a row task awaits  *)
(* its range requests), "decoding" (a row task works through its tiles),    *)
(* "done", "failed" (the task ended in an exception).  arrived holds the    *)
(* kinds of range request of a row task that have been answered.            *)

Cols(tiles) == tiles.xmax + 1 - tiles.xmin
Rows(tiles) == tiles.ymax + 1 - tiles.ymin

Task(idx, idy, tiles, indices) ==
    [pc |-> "created", idx |-> idx, idy |-> idy,
     xtile |-> tiles.xmin + idx, ytile |-> tiles.ymin + idy,
     indices |-> indices, response |-> <<>>, k |-> 0, arrived |-> {}]

\* _request_tiles lines 271-278: one task per tile, columns outermost
TileTasks(tiles) ==
    [n \in 1 .. Cols(tiles) * Rows(tiles) |->
        Task((n - 1) \div Rows(tiles), (n - 1) % Rows(tiles), tiles, <<>>)]

\* _request_merged_tiles lines 421-431: one task per row with the row's
\* (tile_index, idx, idy) triples
RowIndices(ifd, tiles, idy) ==
    [i \in 1 .. Cols(tiles) |->
        <<((tiles.ymin + idy) * ifd.tile_count[1]) + (tiles.xmin + (i - 1)),
          i - 1, idy>>]

RowTasks(ifd, tiles) ==
    [n \in 1 .. Rows(tiles) |-> Task(0, n - 1, tiles, RowIndices(ifd, tiles, n - 1))]

Positions(tiles) == (0 .. Cols(tiles) - 1) \X (0 .. Rows(tiles) - 1)

Finished(ts) == \A n \in DOMAIN ts : ts[n].pc \in {"done", "failed"}
AllStarted(ts) == \A n \in DOMAIN ts : ts[n].pc # "created"
\* the event loop runs the tasks' first steps in creation order
NextToStart(ts, n) ==
    /\ n \in DOMAIN ts
    /\ ts[n].pc = "created"
    /\ \A m \in DOMAIN ts : m < n => ts[m].pc # "created"

\* asyncio.gather with return_exceptions=True: results once all tasks ended
GatherAll(ts) ==
    IF Finished(ts) THEN "return" ELSE "pending"

\* asyncio.wait(..., FIRST_COMPLETED): over as soon as one task has ended
GatherFirst(ts) ==
    IF \E n \in DOMAIN ts : ts[n].pc = "failed" THEN "raise"
    ELSE IF \E n \in DOMAIN ts : ts[n].pc = "done" THEN "return"
    ELSE "pending"

\* await asyncio.gather(*tasks): the first exception is raised to the awaiter
\* at once, the results are returned once every task is done
Gather(ts) ==
    IF \E n \in DOMAIN ts : ts[n].pc = "failed" THEN "raise"
    ELSE IF \A n \in DOMAIN ts : ts[n].pc = "done" THEN "return"
    ELSE "pending"

Modes == {"tiles", "merged"}

\* the caller makes a call once the previous call is over and its tasks ended
CanCall(mode) ==
    /\ outcome[mode] = "pending"
    /\ IF call = "none" THEN TRUE ELSE outcome[call] \in {"returned", "failed"}
    /\ Finished(tasks)

NewCall(mode, ts) ==
    /\ call' = mode
    /\ outcome' = [outcome EXCEPT ![mode] = "running"]
    /\ img_arr' = InitArray(img_tiles, is_masked, nodata)
    /\ tasks' = ts
    /\ requests' = <<>>
    /\ stitchCount' = [p \in Positions(img_tiles) |-> 0]
    /\ consulted' = [n \in DOMAIN ts |-> FALSE]
    /\ UNCHANGED <<returned, fault, sourceVars, ppVars, ovVars, gmVars, exVars, fsVars, stVars, rqVars>>

\* _request_tiles lines 269-278, up to the await
RequestTiles ==
    /\ CanCall("tiles")
    /\ NewCall("tiles", TileTasks(img_tiles))

\* _request_merged_tiles lines 417-431, up to the await
RequestMergedTiles ==
    /\ CanCall("merged")
    /\ NewCall("merged", RowTasks(At(ifds, img_tiles.ovr_level), img_tiles))

\* _get_and_stitch_tile line 262: get_tile is called and issues its requests
StartTile(n) ==
    /\ call = "tiles"
    /\ NextToStart(tasks, n)
    /\ tasks' = [tasks EXCEPT ![n].pc = "get_tile"]
    /\ requests' = requests
           \o GetTileRequests(tasks[n].xtile, tasks[n].ytile, img_tiles.ovr_level)
    /\ UNCHANGED <<call, outcome, returned, fault, img_arr, stitchCount, consulted,
                   sourceVars, ppVars, ovVars, gmVars, exVars, fsVars, stVars, rqVars>>

\* _get_and_stitch_tile lines 262-265: get_tile returns and the tile is stitched
GetAndStitchTile(n) ==
    /\ call = "tiles"
    /\ n \in DOMAIN tasks
    /\ tasks[n].pc = "get_tile"
    /\ AllStarted(tasks)
    /\ LET t == tasks[n]
           tile == GetTile(t.xtile, t.ytile, img_tiles.ovr_level)
           raises == StitchRaises(tile, img_arr, t.idx, t.idy,
                                  img_tiles.tile_width, img_tiles.tile_height)
       IN  /\ img_arr' = StitchImageTile(tile, img_arr, t.idx, t.idy,
                                         img_tiles.tile_width, img_tiles.tile_height)
           /\ tasks' = [tasks EXCEPT ![n].pc = IF raises THEN "failed" ELSE "done"]
           /\ stitchCount' =
                  IF raises THEN stitchCount
                  ELSE [stitchCount EXCEPT ![<<t.idx, t.idy>>] = @ + 1]
    /\ UNCHANGED <<call, outcome, returned, fault, requests, consulted,
                   sourceVars, ppVars, ovVars, gmVars, exVars, fsVars, stVars, rqVars>>

\* _get_and_stitch_tile line 262: get_tile raises (the fetch or the decode failed)
GetTileFails(n) ==
    /\ call = "tiles"
    /\ n \in DOMAIN tasks
    /\ tasks[n].pc = "get_tile"
    /\ AllStarted(tasks)
    /\ tasks' = [tasks EXCEPT ![n].pc = "failed"]
    /\ fault' = [fault EXCEPT ![call] = TRUE]
    /\ UNCHANGED <<call, outcome, returned, img_arr, requests, stitchCount, consulted,
                   sourceVars, ppVars, ovVars, gmVars, exVars, fsVars, stVars, rqVars>>

----------------------------------------------------------------------------
(* _request_merged_tile, the task of one row *)

TileIndicesOf(indices) == [i \in DOMAIN indices |-> indices[i][1]]

\* line 371 and line 382: the offset of the row's lowest tile index
RowOffset(ifd, indices) == ifd.TileOffsets[MinOf(SeqRange(TileIndicesOf(indices)))]

\* lines 372-375 and 383-386: the arguments of the row's range request
RowRange(ifd, indices) ==
    MergeRangeRequests(ifd, TileIndicesOf(indices), RowOffset(ifd, indices))

\* lines 379 and 399: the condition under which the mask is fetched and applied
RowNeedsMask == AddMask(is_masked, nodata)

\* lines 369-388: the range requests a row task puts in futures
RowKinds == IF RowNeedsMask THEN {"image", "mask"} ELSE {"image"}

\* asyncio.wait(futures, FIRST_COMPLETED): over with the first answer
RowGatherFirst(arrived, kinds) == arrived # {}

\* line 390, await asyncio.gather(*futures): over once every request is answered
RowGather(arrived, kinds) == arrived = kinds

\* lines 398 and 406: a block that has not the length its directory entry
\* gives cannot be decompressed
MergedTileRaises(ifd, response, indices, k) ==
    LET tile_idx == indices[k][1]
        mask_ifd == At(mask_ifds, img_tiles.ovr_level)
    IN  \/ Len(ExtractTile(ifd, response[1], tile_idx, RowOffset(ifd, indices)))
               # ifd.TileByteCounts[tile_idx]
        \/ /\ RowNeedsMask
           /\ Len(ExtractTile(mask_ifd, response[2], tile_idx,
                              RowOffset(mask_ifd, indices)))
                  # mask_ifd.TileByteCounts[tile_idx]

\* lines 396-409: the array decoded for one tile of the row
MergedTile(ifd, response, indices, k) ==
    LET tile_idx == indices[k][1]
        shape == TileShape(img_tiles)
        tile_bytes == ExtractTile(ifd, response[1], tile_idx, RowOffset(ifd, indices))
        decoded == Decompress(tile_bytes, shape)
        mask_ifd == At(mask_ifds, img_tiles.ovr_level)
        mask_bytes == ExtractTile(mask_ifd, response[2], tile_idx,
                                  RowOffset(mask_ifd, indices))
        mask_decoded == DecompressMask(mask_bytes, shape)
    IN  IF RowNeedsMask
        THEN MaskedArrayWith(decoded, InvertBroadcast(mask_decoded, shape))
        ELSE decoded

\* lines 367-390, up to the await: the image request is created, the mask
\* directory is looked up and the mask request created when a mask is needed;
\* the lookup raises IndexError when there is no mask directory
StartRow(n) ==
    /\ call = "merged"
    /\ NextToStart(tasks, n)
    /\ LET ifd == At(ifds, img_tiles.ovr_level)
           t == tasks[n]
           image == Request("image", t.ytile, RowRange(ifd, t.indices))
           found == HasIndex(mask_ifds, img_tiles.ovr_level)
           mask == Request("mask", t.ytile,
                           RowRange(At(mask_ifds, img_tiles.ovr_level), t.indices))
       IN  IF ~RowNeedsMask
           THEN /\ tasks' = [tasks EXCEPT ![n].pc = "fetching"]
                /\ requests' = Append(requests, image)
                /\ UNCHANGED consulted
           ELSE /\ consulted' = [consulted EXCEPT ![n] = TRUE]
                /\ IF found
                   THEN /\ tasks' = [tasks EXCEPT ![n].pc = "fetching"]
                        /\ requests' = requests \o <<image, mask>>
                   ELSE /\ tasks' = [tasks EXCEPT ![n].pc = "failed"]
                        /\ requests' = Append(requests, image)
    /\ UNCHANGED <<call, outcome, returned, fault, img_arr, stitchCount,
                   sourceVars, ppVars, ovVars, gmVars, exVars, fsVars, stVars, rqVars>>

\* lines 372-388: one of the row's range requests is answered
RowResponse(n) ==
    /\ call = "merged"
    /\ n \in DOMAIN tasks
    /\ tasks[n].pc = "fetching"
    /\ AllStarted(tasks)
    /\ \E kind \in RowKinds \ tasks[n].arrived :
           tasks' = [tasks EXCEPT ![n].arrived = @ \cup {kind}]
    /\ UNCHANGED <<call, outcome, returned, fault, img_arr, requests, stitchCount,
                   consulted, sourceVars, ppVars, ovVars, gmVars, exVars, fsVars, stVars, rqVars>>

\* line 390: gather hands the row task the answers of its range requests, or
\* the exception of a request the file refused
RowFetched(n) ==
    /\ call = "merged"
    /\ n \in DOMAIN tasks
    /\ tasks[n].pc = "fetching"
    /\ AllStarted(tasks)
    /\ RowGather(tasks[n].arrived, RowKinds)
    /\ LET ifd == At(ifds, img_tiles.ovr_level)
           t == tasks[n]
           range == RowRange(ifd, t.indices)
           mrange == RowRange(At(mask_ifds, img_tiles.ovr_level), t.indices)
           image == RangeRead(file, range[1], range[2])
           refused == \/ RangeReadRaises(range[1], range[2])
                      \/ RowNeedsMask /\ RangeReadRaises(mrange[1], mrange[2])
       IN  IF refused
           THEN tasks' = [tasks EXCEPT ![n].pc = "failed"]
           ELSE tasks' = [tasks EXCEPT
                    ![n].pc = "decoding",
                    ![n].k = 1,
                    ![n].response =
                        IF RowNeedsMask
                        THEN <<image, RangeRead(file, mrange[1], mrange[2])>>
                        ELSE <<image>>]
    /\ UNCHANGED <<call, outcome, returned, fault, img_arr, requests, stitchCount,
                   consulted, sourceVars, ppVars, ovVars, gmVars, exVars, fsVars, stVars, rqVars>>

\* line 390: one of the row's range requests still open raises
RowFetchFails(n) ==
    /\ call = "merged"
    /\ n \in DOMAIN tasks
    /\ tasks[n].pc = "fetching"
    /\ AllStarted(tasks)
    /\ tasks[n].arrived # RowKinds
    /\ tasks' = [tasks EXCEPT ![n].pc = "failed"]
    /\ fault' = [fault EXCEPT ![call] = TRUE]
    /\ UNCHANGED <<call, outcome, returned, img_arr, requests, stitchCount, consulted,
                   sourceVars, ppVars, ovVars, gmVars, exVars, fsVars, stVars, rqVars>>

\* lines 394-413, one turn of the loop: the next tile of the row is extracted,
\* decompressed, given its mask and stitched
RowTile(n) ==
    /\ call = "merged"
    /\ n \in DOMAIN tasks
    /\ tasks[n].pc = "decoding"
    /\ LET t == tasks[n]
           pos == t.indices[t.k]
           tile == MergedTile(At(ifds, img_tiles.ovr_level), t.response, t.indices, t.k)
           undecoded == MergedTileRaises(At(ifds, img_tiles.ovr_level), t.response,
                                         t.indices, t.k)
           raises == \/ undecoded
                     \/ StitchRaises(tile, img_arr, pos[2], pos[3],
                                     img_tiles.tile_width, img_tiles.tile_height)
       IN  /\ img_arr' = IF undecoded THEN img_arr
                         ELSE StitchImageTile(tile, img_arr, pos[2], pos[3],
                                              img_tiles.tile_width,
                                              img_tiles.tile_height)
           /\ tasks' = [tasks EXCEPT
                  ![n].pc = IF raises THEN "failed"
                            ELSE IF t.k = Len(t.indices) THEN "done"
                            ELSE "decoding",
                  ![n].k = IF raises THEN t.k ELSE t.k + 1]
           /\ stitchCount' =
                  IF raises THEN stitchCount
                  ELSE [stitchCount EXCEPT ![<<pos[2], pos[3]>>] = @ + 1]
    /\ UNCHANGED <<call, outcome, returned, fault, requests, consulted,
                   sourceVars, ppVars, ovVars, gmVars, exVars, fsVars, stVars, rqVars>>

\* lines 398 and 406: the decompression of the next tile or of its mask raises
RowDecodeFails(n) ==
    /\ call = "merged"
    /\ n \in DOMAIN tasks
    /\ tasks[n].pc = "decoding"
    /\ tasks' = [tasks EXCEPT ![n].pc = "failed"]
    /\ fault' = [fault EXCEPT ![call] = TRUE]
    /\ UNCHANGED <<call, outcome, returned, img_arr, requests, stitchCount, consulted,
                   sourceVars, ppVars, ovVars, gmVars, exVars, fsVars, stVars, rqVars>>

----------------------------------------------------------------------------
(* The end of a call: lines 279-280 and 432-433 *)

\* gather returns and the orchestrator returns img_arr
ReturnArray ==
    /\ call \in Modes
    /\ outcome[call] = "running"
    /\ AllStarted(tasks)
    /\ Gather(tasks) = "return"
    /\ outcome' = [outcome EXCEPT ![call] = "returned"]
    /\ returned' = [returned EXCEPT ![call] = img_arr]
    /\ UNCHANGED <<call, fault, img_arr, tasks, requests, stitchCount, consulted,
                   sourceVars, ppVars, ovVars, gmVars, exVars, fsVars, stVars, rqVars>>

\* gather raises a task's exception and the orchestrator lets it through
RaiseFailure ==
    /\ call \in Modes
    /\ outcome[call] = "running"
    /\ AllStarted(tasks)
    /\ Gather(tasks) = "raise"
    /\ outcome' = [outcome EXCEPT ![call] = "failed"]
    /\ UNCHANGED <<call, returned, fault, img_arr, tasks, requests, stitchCount,
                   consulted, sourceVars, ppVars, ovVars, gmVars, exVars, fsVars, stVars, rqVars>>

----------------------------------------------------------------------------
(* Initial states *)

NoData == {[some |-> FALSE, value |-> 0], [some |-> TRUE, value |-> 0]}
Gaps == {0, 1}

TileRanges ==
    {r \in [xmin : 0 .. GridW - 1, xmax : 0 .. GridW - 1,
            ymin : 0 .. GridH - 1, ymax : 0 .. GridH - 1] :
        /\ r.xmin <= r.xmax
        /\ r.ymin <= r.ymax
        /\ (r.xmax + 1 - r.xmin) * (r.ymax + 1 - r.ymin) <= MaxTiles}

\* a TileMetadata over tile range r whose window is the whole fused array
Metadata(r, tlx, tly, width, height) ==
    [tlx |-> tlx, tly |-> tly, width |-> width, height |-> height,
     tile_width |-> TileWidth, tile_height |-> TileHeight,
     xmin |-> r.xmin, ymin |-> r.ymin, xmax |-> r.xmax, ymax |-> r.ymax,
     bands |-> Bands, ovr_level |-> 0]

PostIdle ==
    /\ pp_arr = NoArray
    /\ pp_tiles = Metadata([xmin |-> 0, xmax |-> 0, ymin |-> 0, ymax |-> 0], 0, 0, 0, 0)
    /\ pp_out_shape = <<>>
    /\ pp_result = NoArray
    /\ pp_pc = "idle"

OverviewIdle ==
    /\ ov_src_res = 1
    /\ ov_overviews = <<>>
    /\ ov_strategy = [name |-> "AUTO", number |-> 0]
    /\ ov_bounds = <<0, 0, 1, 1>>
    /\ ov_shape = <<1, 1>>
    /\ ov_level = 0
    /\ ov_pc = "idle"

GeometryIdle ==
    /\ gm_gt = [a |-> 1, c |-> 0, f |-> 0]
    /\ gm_bounds = <<0, 0, 1, 1>>
    /\ gm_tiles = Metadata([xmin |-> 0, xmax |-> 0, ymin |-> 0, ymax |-> 0], 0, 0, 0, 0)
    /\ gm_pc = "idle"

ExtractIdle ==
    /\ ex_indices = <<>>
    /\ ex_response = <<>>
    /\ ex_tiles = <<>>
    /\ ex_pc = "idle"

FsIdle ==
    /\ fs_backend = "local"
    /\ fs_start = 0
    /\ fs_offset = 0
    /\ fs_asked = <<>>
    /\ fs_data = <<>>
    /\ fs_pc = "idle"

StitchIdle ==
    /\ st_arr = NoArray
    /\ st_fused = NoArray
    /\ st_pos = <<0, 0>>
    /\ st_pc = "idle"

StoreIdle ==
    /\ rq_backend = "local"
    /\ rq_config = [header |-> FALSE, block |-> FALSE]
    /\ rq_cache = {}
    /\ rq_counters = [total_requests |-> 0, total_bytes_requested |-> 0,
                      requested_ranges |-> <<>>]
    /\ rq_history = <<>>

OthersIdle == GeometryIdle /\ ExtractIdle /\ FsIdle /\ StitchIdle /\ StoreIdle

SourceInit ==
    /\ is_masked \in BOOLEAN
    /\ nodata \in NoData
    /\ \E gap \in Gaps :
        /\ ifds = <<ImageIFD(is_masked, gap)>>
        /\ mask_ifds = MaskIfdsOf(is_masked, gap)
        /\ file = FileBytes(is_masked, gap)
    /\ \E r \in TileRanges :
        img_tiles = Metadata(r, 0, 0, (r.xmax + 1 - r.xmin) * TileWidth,
                             (r.ymax + 1 - r.ymin) * TileHeight)

OrchIdle ==
    /\ call = "none"
    /\ outcome = [m \in Modes |-> "pending"]
    /\ returned = [m \in Modes |-> NoArray]
    /\ fault = [m \in Modes |-> FALSE]
    /\ img_arr = NoArray
    /\ tasks = <<>>
    /\ requests = <<>>
    /\ stitchCount = [p \in Positions(img_tiles) |-> 0]
    /\ consulted = <<>>

Init == SourceInit /\ OrchIdle /\ PostIdle /\ OverviewIdle /\ OthersIdle

Next ==
    \/ RequestTiles
    \/ RequestMergedTiles
    \/ \E n \in 1 .. MaxTiles : StartTile(n)
    \/ \E n \in 1 .. MaxTiles : GetAndStitchTile(n)
    \/ \E n \in 1 .. MaxTiles : GetTileFails(n)
    \/ \E n \in 1 .. MaxTiles : StartRow(n)
    \/ \E n \in 1 .. MaxTiles : RowResponse(n)
    \/ \E n \in 1 .. MaxTiles : RowFetched(n)
    \/ \E n \in 1 .. MaxTiles : RowFetchFails(n)
    \/ \E n \in 1 .. MaxTiles : RowTile(n)
    \/ \E n \in 1 .. MaxTiles : RowDecodeFails(n)
    \/ ReturnArray
    \/ RaiseFailure

Spec == Init /\ [][Next]_vars

----------------------------------------------------------------------------
(* Properties of the fetch orchestrators *)

Over(m) == outcome[m] \in {"returned", "failed"}

SameCells(a, b) == a.shape = b.shape /\ a.data = b.data /\ a.mask = b.mask

\* C1: for the same TileMetadata, tile directory and file bytes, the mosaic
\* _request_tiles returns and the mosaic _request_merged_tiles returns are
\* identical cell for cell, values and mask: when neither call met a failing
\* fetch or decode, both return and the two arrays are equal.
C1_ModesAgree ==
    (\A m \in Modes : Over(m) /\ ~fault[m]) =>
        /\ \A m \in Modes : outcome[m] = "returned"
        /\ SameCells(returned["tiles"], returned["merged"])

\* C2: once a fetch or a decode of a call has failed, the call never returns
\* an array: its outcome is a failure or still open, whatever was stitched.
C2_FailureNeverReturns ==
    \A m \in Modes :
        (fault[m] \/ (m = call /\ \E n \in DOMAIN tasks : tasks[n].pc = "failed")) =>
            /\ outcome[m] # "returned"
            /\ returned[m] = NoArray

C2_Witness ==
    /\ call \in Modes
    /\ fault[call]
    /\ outcome[call] = "failed"
    /\ \E p \in Positions(img_tiles) : stitchCount[p] >= 1

\* C3: after a call has reported its failure no task of the call issues a
\* range request, decodes a tile or writes into the Mosaic Buffer: every step
\* taken while the call stands failed leaves requests, buffer and stitches alone.
C3_FailureCancelsRest ==
    [][(call \in Modes /\ call' = call /\ outcome[call] = "failed") =>
          /\ requests' = requests
          /\ img_arr' = img_arr
          /\ stitchCount' = stitchCount]_vars

\* C4: the orchestrator returns the Mosaic Buffer only when every tile of the
\* range has been fetched, decoded and stitched and no task is left to stitch:
\* the array handed out is the buffer with all its tiles in place.
C4_FanInBarrier ==
    (call \in Modes /\ outcome[call] = "returned") =>
        /\ \A p \in Positions(img_tiles) : stitchCount[p] >= 1
        /\ \A n \in DOMAIN tasks : tasks[n].pc = "done"
        /\ returned[call] = img_arr

C4_Witness ==
    /\ call = "merged"
    /\ outcome[call] = "returned"
    /\ Cols(img_tiles) >= 2
    /\ Rows(img_tiles) >= 2

\* C5: every grid position is stitched at most once during a call (exactly
\* once when the call returns), and a stitch for (grid_x, grid_y) changes only
\* cells with rows in [grid_y*tile_height, (grid_y+1)*tile_height) and columns
\* in [grid_x*tile_width, (grid_x+1)*tile_width): every other value and mask
\* cell keeps its content.
C5_DisjointStitches ==
    [][(call \in Modes /\ call' = call) =>
          /\ \A p \in Positions(img_tiles) : stitchCount'[p] <= 1
          /\ outcome'[call] = "returned" =>
                 \A p \in Positions(img_tiles) : stitchCount'[p] = 1
          /\ \A c \in Cells(img_arr.shape) :
                 (img_arr'.data[c] # img_arr.data[c]
                      \/ img_arr'.mask[c] # img_arr.mask[c]) =>
                     \E p \in Positions(img_tiles) :
                         /\ stitchCount'[p] = stitchCount[p] + 1
                         /\ c[2] >= p[2] * img_tiles.tile_height
                         /\ c[2] < (p[2] + 1) * img_tiles.tile_height
                         /\ c[3] >= p[1] * img_tiles.tile_width
                         /\ c[3] < (p[1] + 1) * img_tiles.tile_width]_vars

C5_Witness ==
    /\ call \in Modes
    /\ is_masked
    /\ Cardinality({p \in Positions(img_tiles) : stitchCount[p] = 1}) >= 2
    /\ \E p \in Positions(img_tiles) : stitchCount[p] = 0
    /\ \E c \in DOMAIN img_arr.data : img_arr.data[c] # 0
    /\ \E c \in DOMAIN img_arr.mask : img_arr.mask[c]

\* the tile a call decodes for grid position (idx, idy)
DecodedTileAt(m, idx, idy) ==
    LET ifd == At(ifds, img_tiles.ovr_level)
        indices == RowIndices(ifd, img_tiles, idy)
        range == RowRange(ifd, indices)
        mrange == RowRange(At(mask_ifds, img_tiles.ovr_level), indices)
        response ==
            <<RangeRead(file, range[1], range[2])>>
            \o (IF RowNeedsMask
                THEN <<RangeRead(file, mrange[1], mrange[2])>>
                ELSE <<>>)
    IN  IF m = "tiles"
        THEN GetTile(img_tiles.xmin + idx, img_tiles.ymin + idy, img_tiles.ovr_level)
        ELSE MergedTile(ifd, response, indices, idx + 1)

\* the buffer after the first n tiles were stitched in index order, row by row
RECURSIVE StitchedInIndexOrder(_, _)
StitchedInIndexOrder(m, n) ==
    IF n = 0 THEN InitArray(img_tiles, is_masked, nodata)
    ELSE LET idx == (n - 1) % Cols(img_tiles)
             idy == (n - 1) \div Cols(img_tiles)
         IN  StitchImageTile(DecodedTileAt(m, idx, idy),
                             StitchedInIndexOrder(m, n - 1), idx, idy,
                             img_tiles.tile_width, img_tiles.tile_height)

\* C6: the buffer a call returns does not depend on the order in which its
\* tasks completed: it is the buffer obtained by stitching the same decoded
\* tiles in index order.
C6_OrderIndependent ==
    \A m \in Modes :
        outcome[m] = "returned" =>
            returned[m] = StitchedInIndexOrder(m, Cols(img_tiles) * Rows(img_tiles))

C6_Witness ==
    /\ \A m \in Modes : outcome[m] = "returned"
    /\ Cols(img_tiles) * Rows(img_tiles) >= 4
    /\ \E c \in DOMAIN returned["tiles"].mask : returned["tiles"].mask[c]

\* C7: in merged-range mode every row that has started has issued exactly one
\* image range request, with start = the offset of the row's first tile
\* (column xmin) and length_minus_one = last_tile_offset + last_tile_bytecount
\* - 1 - first_tile_offset for the row's last tile (column xmax).
C7_OneMergedRequestPerRow ==
    call = "merged" =>
        \A n \in DOMAIN tasks :
            LET ifd == At(ifds, img_tiles.ovr_level)
                first == tasks[n].ytile * GridW + img_tiles.xmin
                last == tasks[n].ytile * GridW + img_tiles.xmax
                mine == {i \in DOMAIN requests :
                            requests[i].kind = "image" /\ requests[i].row = tasks[n].ytile}
            IN  IF tasks[n].pc = "created" THEN mine = {}
                ELSE /\ Cardinality(mine) = 1
                     /\ \A i \in mine :
                          /\ requests[i].start = ifd.TileOffsets[first]
                          /\ requests[i].length_minus_one =
                                 ifd.TileOffsets[last] + ifd.TileByteCounts[last] - 1
                                     - ifd.TileOffsets[first]

C7_Witness ==
    /\ call = "merged"
    /\ Cols(img_tiles) >= 2
    /\ Cardinality({i \in DOMAIN requests : requests[i].kind = "image"}) >= 2
    /\ outcome[call] = "returned"

\* C8: in merged-range mode a row looks up the mask directory and issues a
\* mask range request if and only if the image has an internal mask; a read of
\* R rows of an image without internal mask issues exactly R range requests
\* and, when no fetch or decode fails, returns.
C8_MaskFetchIffInternalMask ==
    call = "merged" =>
        /\ \A n \in DOMAIN tasks :
               tasks[n].pc # "created" =>
                   /\ consulted[n] <=> is_masked
                   /\ (\E i \in DOMAIN requests :
                           requests[i].kind = "mask" /\ requests[i].row = tasks[n].ytile)
                          <=> is_masked
        /\ (~is_masked /\ Over(call) /\ ~fault[call]) =>
               /\ outcome[call] = "returned"
               /\ Len(requests) = Rows(img_tiles)

\* not a claim: the two modes agree on every image that has a mask directory
\* or needs no mask at all
ModesAgreeWithDirectory ==
    (is_masked \/ ~nodata.some) => C1_ModesAgree

----------------------------------------------------------------------------
(* _postprocess on a mosaic *)

\* the largest width and height of an output shape
MaxOut == 2

OutShapes == {<<>>} \cup ((1 .. MaxOut) \X (1 .. MaxOut))

\* tile ranges starting at the grid's first tile: the shapes a mosaic can have
MosaicRanges == {r \in TileRanges : r.xmin = 0 /\ r.ymin = 0}

\* a filled mosaic: every cell holds a different value, the mask a pattern
FilledMosaic(shape, kind, nomask) ==
    [kind |-> kind, shape |-> shape,
     data |-> [c \in Cells(shape) |-> 1 + c[3] + shape[3] * (c[2] + shape[2] * c[1])],
     nomask |-> nomask,
     mask |-> [c \in Cells(shape) |-> ~nomask /\ (c[1] + c[2] + c[3]) % 2 = 1]]

PostInit ==
    /\ is_masked \in BOOLEAN
    /\ nodata \in NoData
    /\ ifds = <<ImageIFD(is_masked, 0)>>
    /\ mask_ifds = MaskIfdsOf(is_masked, 0)
    /\ file = FileBytes(is_masked, 0)
    /\ img_tiles = Metadata([xmin |-> 0, xmax |-> 0, ymin |-> 0, ymax |-> 0], 0, 0, 0, 0)
    /\ \E r \in MosaicRanges :
       \E tlx \in 0 .. Cols(r) * TileWidth, tly \in 0 .. Rows(r) * TileHeight :
       \E width \in 0 .. Cols(r) * TileWidth - tlx,
          height \in 0 .. Rows(r) * TileHeight - tly :
           /\ pp_tiles = Metadata(r, tlx, tly, width, height)
           /\ \E nomask \in BOOLEAN :
                 pp_arr = FilledMosaic(
                     FusedShape(pp_tiles),
                     IF AddMask(is_masked, nodata) THEN "masked" ELSE "ndarray",
                     IF AddMask(is_masked, nodata) THEN nomask ELSE TRUE)
    /\ pp_out_shape \in OutShapes
    /\ pp_result = NoArray
    /\ pp_pc = "idle"

\* _postprocess lines 324-333
PostprocessCall ==
    /\ pp_pc = "idle"
    /\ IF PostprocessRaises(pp_arr, pp_tiles, pp_out_shape, is_masked, nodata)
       THEN /\ pp_pc' = "failed"
            /\ UNCHANGED pp_result
       ELSE /\ pp_pc' = "done"
            /\ pp_result' = Postprocess(pp_arr, pp_tiles, pp_out_shape, is_masked, nodata)
    /\ UNCHANGED <<pp_arr, pp_tiles, pp_out_shape, sourceVars, orchVars, ovVars,
                   gmVars, exVars, fsVars, stVars, rqVars>>

NextPost == PostprocessCall

InitPost == PostInit /\ OrchIdle /\ OverviewIdle /\ OthersIdle

SpecPost == InitPost /\ [][NextPost]_vars

\* C9: _postprocess with out_shape = None returns exactly the crop
\* mosaic[:, tly : tly+height, tlx : tlx+width] over all bands: the result has
\* shape (bands, height, width), cell (b, r, c) of it holds the value and the
\* mask cell of mosaic cell (b, tly + r, tlx + c), and it is the same kind of
\* array as the mosaic (nothing is resampled).
C9_CropOnly ==
    (pp_pc # "idle" /\ pp_out_shape = <<>>) =>
        /\ pp_pc = "done"
        /\ pp_result.kind = pp_arr.kind
        /\ pp_result.nomask = pp_arr.nomask
        /\ pp_result.shape = <<pp_tiles.bands, pp_tiles.height, pp_tiles.width>>
        /\ DOMAIN pp_result.data = Cells(pp_result.shape)
        /\ \A c \in Cells(pp_result.shape) :
               /\ pp_result.data[c] =
                      pp_arr.data[<<c[1], pp_tiles.tly + c[2], pp_tiles.tlx + c[3]>>]
               /\ pp_result.mask[c] =
                      pp_arr.mask[<<c[1], pp_tiles.tly + c[2], pp_tiles.tlx + c[3]>>]

C9_Witness ==
    /\ pp_pc = "done"
    /\ pp_out_shape = <<>>
    /\ pp_tiles.tlx > 0
    /\ pp_tiles.tly > 0
    /\ pp_tiles.width > 1
    /\ pp_tiles.tlx + pp_tiles.width < pp_arr.shape[3]
    /\ \E c \in DOMAIN pp_result.mask : pp_result.mask[c]

----------------------------------------------------------------------------
(* _get_overview_level *)

\* the largest number of overviews, the largest extent of the request bounds
\* and the largest request width
MaxOverviews == 3
MaxSpan == 20
MaxWidth == 4

\* integer powers of two
RECURSIVE Pow2(_)
Pow2(n) == IF n = 0 THEN 1 ELSE 2 * Pow2(n - 1)

\* self.overviews: 2**zoom for each overview of the image
OverviewsOf(n) == [i \in 1 .. n |-> Pow2(i)]

\* config.ZOOM_LEVEL_STRATEGY: a name, or a number when name is ""
Strategies ==
    {[name |-> s, number |-> 0] : s \in {"AUTO", "LOWER", "UPPER"}}
    \cup {[name |-> "", number |-> p] : p \in {-1, 0, 1, 25, 50, 75, 99, 100, 101}}

\* lines 133-135: [src_res] + [src_res * decim for decim in self.overviews]
AvailableResolutions(src_res, overviews) ==
    <<src_res>> \o [i \in DOMAIN overviews |-> src_res * overviews[i]]

\* lines 136-140: int({"AUTO": 50, "LOWER": 100, "UPPER": 0}.get(s, s))
Percentage(strategy) ==
    IF strategy.name = "AUTO" THEN 50
    ELSE IF strategy.name = "LOWER" THEN 100
    ELSE IF strategy.name = "UPPER" THEN 0
    ELSE strategy.number

\* line 148 with the sign of the blend term reversed, times 100
Threshold100Above(res_current, res_higher, percentage) ==
    100 * res_current + (res_current - res_higher) * percentage

\* line 148, times 100:
\* threshold = res_current - (res_current - res_higher) * (percentage / 100.0)
Threshold100(res_current, res_higher, percentage) ==
    100 * res_current - (res_current - res_higher) * percentage

\* lines 125-131: target_res = (bounds[2] - bounds[0]) / width, kept as the
\* fraction span / width
Span(bounds) == bounds[3] - bounds[1]

\* line 149 without its second test: target_res > threshold
QualifiesStrict(span, width, res_current, res_higher, percentage) ==
    100 * span > width * Threshold100(res_current, res_higher, percentage)

\* line 149: target_res > threshold or target_res == res_current
Qualifies(span, width, res_current, res_higher, percentage) ==
    \/ 100 * span > width * Threshold100(res_current, res_higher, percentage)
    \/ span = width * res_current

\* lines 145-152: the loop from the coarsest level down to level 1; level i of
\* the code is entry i + 1 of the sequence
RECURSIVE OverviewLoop(_, _, _, _, _)
OverviewLoop(res, percentage, span, width, i) ==
    IF i < 1 THEN 0
    ELSE IF Qualifies(span, width, res[i + 1], res[i], percentage) THEN i
    ELSE OverviewLoop(res, percentage, span, width, i - 1)

\* line 141 left out: every percentage passes
PercentageUnchecked(strategy) == TRUE

\* line 141: assert 0 <= percentage <= 100
PercentageValid(strategy) == 0 <= Percentage(strategy) /\ Percentage(strategy) <= 100

\* _get_overview_level
GetOverviewLevel(src_res, overviews, strategy, bounds, width) ==
    OverviewLoop(AvailableResolutions(src_res, overviews), Percentage(strategy),
                 Span(bounds), width, Len(overviews))

Requests == {<<0, 0, span, 1>> : span \in 1 .. MaxSpan}

OverviewInit ==
    /\ ov_src_res \in {1, 2}
    /\ ov_overviews \in {OverviewsOf(n) : n \in 0 .. MaxOverviews}
    /\ ov_strategy \in Strategies
    /\ ov_bounds \in Requests
    /\ ov_shape \in (1 .. MaxWidth) \X {1}
    /\ ov_level = 0
    /\ ov_pc = "idle"

\* _get_overview_level lines 124-152
GetOverviewLevelCall ==
    /\ ov_pc = "idle"
    /\ IF PercentageValid(ov_strategy)
       THEN /\ ov_pc' = "done"
            /\ ov_level' = GetOverviewLevel(ov_src_res, ov_overviews, ov_strategy,
                                            ov_bounds, ov_shape[1])
       ELSE /\ ov_pc' = "failed"
            /\ UNCHANGED ov_level
    /\ UNCHANGED <<ov_src_res, ov_overviews, ov_strategy, ov_bounds, ov_shape,
                   sourceVars, orchVars, ppVars, gmVars, exVars, fsVars, stVars, rqVars>>

NextOverview == GetOverviewLevelCall

SourceIdle ==
    /\ is_masked = FALSE
    /\ nodata = [some |-> FALSE, value |-> 0]
    /\ ifds = <<ImageIFD(FALSE, 0)>>
    /\ mask_ifds = <<>>
    /\ file = FileBytes(FALSE, 0)
    /\ img_tiles = Metadata([xmin |-> 0, xmax |-> 0, ymin |-> 0, ymax |-> 0], 0, 0, 0, 0)

InitOverview == OverviewInit /\ SourceIdle /\ OrchIdle /\ PostIdle /\ OthersIdle

SpecOverview == InitOverview /\ [][NextOverview]_vars

\* C10: _get_overview_level is monotonic in the target resolution: for the
\* percentage and the overviews of the call, every request whose target
\* resolution is at least the call's gets a level at least as coarse as the
\* level returned, and every request with a finer target a level at most it.
C10_Monotonic ==
    ov_pc = "done" =>
        \A b \in Requests, w \in 1 .. MaxWidth :
            LET other == GetOverviewLevel(ov_src_res, ov_overviews, ov_strategy, b, w)
            IN  /\ Span(ov_bounds) * w <= Span(b) * ov_shape[1] => ov_level <= other
                /\ Span(b) * ov_shape[1] <= Span(ov_bounds) * w => other <= ov_level

C10_Witness ==
    /\ ov_pc = "done"
    /\ Len(ov_overviews) >= 3
    /\ ov_level = 2
    /\ Percentage(ov_strategy) = 25
    /\ Span(ov_bounds) # ov_shape[1] * ov_src_res * ov_overviews[2]

\* the levels i >= 1 whose resolution is at most the target span / width
LevelsWithin(res, span, width) ==
    {i \in 1 .. Len(res) - 1 : width * res[i + 1] <= span}

\* the levels i >= 1 with the target strictly between the resolution of the
\* finer level i - 1 and the resolution of the coarser level i
LevelsAround(res, span, width) ==
    {i \in 1 .. Len(res) - 1 : width * res[i] < span /\ span < width * res[i + 1]}

\* C11: with percentage 0 _get_overview_level returns the coarsest level (the
\* largest index) whose resolution is <= the target resolution, and level 0
\* when no level i >= 1 has a resolution <= the target.
C11_ZeroPicksCoarsestWithin ==
    (ov_pc = "done" /\ Percentage(ov_strategy) = 0) =>
        LET within == LevelsWithin(AvailableResolutions(ov_src_res, ov_overviews),
                                   Span(ov_bounds), ov_shape[1])
        IN  IF within = {} THEN ov_level = 0 ELSE ov_level = MaxOf(within)

C11_Witness ==
    /\ ov_pc = "done"
    /\ ov_strategy.name = "UPPER"
    /\ Len(ov_overviews) = 3
    /\ ov_level = 2
    /\ Span(ov_bounds) = ov_shape[1] * ov_src_res * ov_overviews[2]

\* C12 as stated: with percentage 100, whenever the target resolution lies
\* strictly between the resolutions of two adjacent levels (finer i-1, coarser
\* i), the level returned is the finer one, i-1.
C12_HundredPicksFiner ==
    (ov_pc = "done" /\ Percentage(ov_strategy) = 100) =>
        \A i \in LevelsAround(AvailableResolutions(ov_src_res, ov_overviews),
                              Span(ov_bounds), ov_shape[1]) :
            ov_level = i - 1

\* C12 amended: with percentage 100, whenever the target resolution lies
\* strictly between the resolutions of two adjacent levels (finer i-1, coarser
\* i), the level returned is the coarser one, i.
C12_HundredPicksCoarser ==
    (ov_pc = "done" /\ Percentage(ov_strategy) = 100) =>
        \A i \in LevelsAround(AvailableResolutions(ov_src_res, ov_overviews),
                              Span(ov_bounds), ov_shape[1]) :
            ov_level = i

C12_Witness ==
    /\ ov_pc = "done"
    /\ ov_strategy.name = "LOWER"
    /\ Len(ov_overviews) = 3
    /\ ov_level = 2
    /\ 2 \in LevelsAround(AvailableResolutions(ov_src_res, ov_overviews),
                          Span(ov_bounds), ov_shape[1])

----------------------------------------------------------------------------
(* _calculate_image_tiles.  World coordinates are integers; a pixel of the  *)
(* level is gt.a world units wide and high (north-up: e = -a, b = d = 0),   *)
(* and gt.a is a multiple of EpsInv, so that the 1e-6 of lines 175-178 is   *)
(* gt.a \div EpsInv world units.  Pixel coordinates are kept as numerators  *)
(* over gt.a.                                                                *)

\* 1 / 1e-6, the epsilon of lines 175-178
EpsInv == 1000000

\* the largest pixel size, in multiples of EpsInv world units, and the largest
\* pixel column and row a request bound falls in
MaxPixelSize == 2
MaxPx == 4
MaxPy == 2

\* math.ceil(n / d) for d > 0
RoundUp(n, d) == -((-n) \div d)

\* round(n / d) of Python for d > 0: to the nearest integer, halves to even
RoundHalfEven(n, d) ==
    LET q == n \div d
        r == n - q * d
    IN  IF 2 * r < d THEN q
        ELSE IF 2 * r > d THEN q + 1
        ELSE IF q % 2 = 0 THEN q ELSE q + 1

\* math.floor((coord + 1e-6) / tile_dimension), coord = num / a
TileFloor(num, a, tile_dimension) ==
    (num + a \div EpsInv) \div (a * tile_dimension)

\* _calculate_image_tiles lines 167-212; dtype is passed through, and x_coord
\* and y_coord, which no step of the read uses, are left out
CalculateImageTiles(bounds, gt, tile_width, tile_height, band_count, ovr_level) ==
    LET \* lines 171-172: invgt * (bounds[0], bounds[3]), invgt * (bounds[2], bounds[1])
        tlx == bounds[1] - gt.c
        tly == gt.f - bounds[4]
        brx == bounds[3] - gt.c
        bry == gt.f - bounds[2]
        xmin == TileFloor(tlx, gt.a, tile_width)
        xmax == TileFloor(brx, gt.a, tile_width)
        ymax == TileFloor(bry, gt.a, tile_height)
        ymin == TileFloor(tly, gt.a, tile_height)
        \* lines 188-193: the corner in pixels of the fused geotransform
        xorigin == RoundHalfEven(tlx - xmin * tile_width * gt.a, gt.a)
        yorigin == RoundHalfEven(tly - ymin * tile_height * gt.a, gt.a)
    IN  [tlx |-> xorigin, tly |-> yorigin,
         width |-> RoundHalfEven(brx - tlx, gt.a),
         height |-> RoundHalfEven(bry - tly, gt.a),
         tile_width |-> tile_width, tile_height |-> tile_height,
         xmin |-> xmin, ymin |-> ymin, xmax |-> xmax, ymax |-> ymax,
         bands |-> band_count, ovr_level |-> ovr_level]

\* geotransforms of a level: the origin is the image's top left corner
GeoTransforms == {[a |-> EpsInv * k, c |-> 0, f |-> 0] : k \in 1 .. MaxPixelSize}

\* positions of a request bound inside a pixel: one epsilon before its edge,
\* on the edge, at its half and at three quarters
SubPixel(a) == {-(a \div EpsInv), 0, a \div 2, (3 * a) \div 4}

\* world coordinates of request bounds along an axis of n pixels, from one
\* pixel before the image
Coordinates(a, n) == {p * a + d : p \in -1 .. n, d \in SubPixel(a)}

GeometryInit ==
    /\ gm_gt \in GeoTransforms
    /\ \E left \in Coordinates(gm_gt.a, MaxPx), right \in Coordinates(gm_gt.a, MaxPx),
          down \in Coordinates(gm_gt.a, MaxPy), up \in Coordinates(gm_gt.a, MaxPy) :
           /\ left < right
           /\ up < down
           \* north-up: rows grow downwards, top = f - up, bottom = f - down
           /\ gm_bounds = <<left, gm_gt.f - down, right, gm_gt.f - up>>
    /\ gm_tiles = Metadata([xmin |-> 0, xmax |-> 0, ymin |-> 0, ymax |-> 0], 0, 0, 0, 0)
    /\ gm_pc = "idle"

\* _calculate_image_tiles lines 154-212
CalculateImageTilesCall ==
    /\ gm_pc = "idle"
    /\ gm_pc' = "done"
    /\ gm_tiles' = CalculateImageTiles(gm_bounds, gm_gt, TileWidth, TileHeight, Bands, 0)
    /\ UNCHANGED <<gm_gt, gm_bounds, sourceVars, orchVars, ppVars, ovVars, exVars, fsVars, stVars, rqVars>>

NextGeometry == CalculateImageTilesCall

InitGeometry ==
    GeometryInit /\ SourceIdle /\ OrchIdle /\ PostIdle /\ OverviewIdle
        /\ ExtractIdle /\ FsIdle /\ StitchIdle /\ StoreIdle

SpecGeometry == InitGeometry /\ [][NextGeometry]_vars

\* C14: for every request with left < right and bottom < top under a north-up
\* geotransform the TileMetadata of _calculate_image_tiles has xmin <= xmax,
\* ymin <= ymax, width <= (xmax-xmin+1)*tile_width and height <=
\* (ymax-ymin+1)*tile_height, and the crop window [tly, tly+height) x
\* [tlx, tlx+width) lies inside the buffer _init_array allocates for it.
C14_WindowFitsBuffer ==
    (gm_pc = "done" /\ gm_bounds[1] < gm_bounds[3] /\ gm_bounds[2] < gm_bounds[4]) =>
        LET t == gm_tiles
            shape == InitArray(t, FALSE, [some |-> FALSE, value |-> 0]).shape
        IN  /\ t.xmin <= t.xmax
            /\ t.ymin <= t.ymax
            /\ t.width <= (t.xmax - t.xmin + 1) * t.tile_width
            /\ t.height <= (t.ymax - t.ymin + 1) * t.tile_height
            /\ 0 <= t.tlx /\ 0 <= t.width /\ t.tlx + t.width <= shape[3]
            /\ 0 <= t.tly /\ 0 <= t.height /\ t.tly + t.height <= shape[2]

C14_Witness ==
    /\ gm_pc = "done"
    /\ gm_tiles.xmin < gm_tiles.xmax
    /\ gm_tiles.ymin < gm_tiles.ymax
    /\ gm_tiles.tlx > 0
    /\ gm_tiles.tlx + gm_tiles.width = (gm_tiles.xmax - gm_tiles.xmin + 1) * TileWidth
    /\ gm_tiles.height = (gm_tiles.ymax - gm_tiles.ymin + 1) * TileHeight
    /\ gm_bounds[3] % gm_gt.a # 0

\* C16 and C19 are properties of the fetch orchestrators (Spec)

\* the mask tile of grid position p as the mask directory places it in the
\* file, decoded
MaskDecodedAt(p) ==
    LET mask_ifd == At(mask_ifds, img_tiles.ovr_level)
        i == TileIndex(mask_ifd, img_tiles.xmin + p[1], img_tiles.ymin + p[2])
        range == TileRange(mask_ifd, i)
    IN  DecompressMask(RangeRead(file, range[1], range[2]), TileShape(img_tiles))

\* in arr every mask cell of the slot of p, in every band, is the complement
\* of the decoded mask value of its pixel
SlotMaskIsComplement(arr, p) ==
    /\ arr.kind = "masked"
    /\ ~arr.nomask
    /\ \A b \in 0 .. img_tiles.bands - 1,
          r \in 0 .. img_tiles.tile_height - 1,
          c \in 0 .. img_tiles.tile_width - 1 :
           arr.mask[<<b, p[2] * img_tiles.tile_height + r,
                      p[1] * img_tiles.tile_width + c>>]
               = ~MaskDecodedAt(p)[<<0, r, c>>]

\* C16: in merged-range mode with an internal mask, for every stitched tile
\* and every band the mask cell of the Mosaic Buffer at a pixel is the logical
\* complement of the decoded mask value at that pixel; when the read has
\* completed this holds for every tile of the array returned.
C16_MaskIsComplement ==
    (call = "merged" /\ is_masked) =>
        /\ \A p \in Positions(img_tiles) :
               stitchCount[p] >= 1 => SlotMaskIsComplement(img_arr, p)
        /\ outcome[call] = "returned" =>
               \A p \in Positions(img_tiles) :
                   SlotMaskIsComplement(returned[call], p)

C16_Witness ==
    /\ call = "merged"
    /\ is_masked
    /\ outcome[call] = "returned"
    /\ Cols(img_tiles) >= 2
    /\ Rows(img_tiles) >= 2
    /\ \E c \in DOMAIN returned[call].mask : returned[call].mask[c]
    /\ \E c \in DOMAIN returned[call].mask : ~returned[call].mask[c]

\* the range requests of kind kind the call has issued for the row of task n
RowRequests(n, kind) ==
    {i \in DOMAIN requests : requests[i].kind = kind /\ requests[i].row = tasks[n].ytile}

\* C19: within a row task of merged-range mode no tile of the row is sliced,
\* decoded or stitched before the row's image range request and, when one is
\* issued, its mask range request have both been answered; and both requests
\* are issued before the task awaits either.
C19_FetchBeforeSlice ==
    call = "merged" =>
        \A n \in DOMAIN tasks :
            LET t == tasks[n]
                worked == \/ t.k >= 1
                          \/ t.response # <<>>
                          \/ \E i \in DOMAIN t.indices :
                                 stitchCount[<<t.indices[i][2], t.indices[i][3]>>] >= 1
                launched == {kind \in {"image", "mask"} : RowRequests(n, kind) # {}}
            IN  /\ worked => t.arrived = launched /\ "image" \in t.arrived
                /\ t.pc \in {"created", "fetching"} => ~worked
                /\ t.arrived \subseteq launched
                /\ t.pc = "fetching" =>
                       launched = (IF AddMask(is_masked, nodata)
                                   THEN {"image", "mask"} ELSE {"image"})

C19_Witness ==
    /\ call = "merged"
    /\ is_masked
    /\ \E n \in DOMAIN tasks :
           tasks[n].pc = "fetching" /\ tasks[n].arrived = {"mask"}
    /\ \E n \in DOMAIN tasks :
           tasks[n].pc = "decoding" /\ tasks[n].k = 2

----------------------------------------------------------------------------
(* _merge_range_requests and _extract_tile on the tiles of one row, as      *)
(* _request_merged_tile applies them to the image directory and to the mask *)
(* directory.  The format leaves the place of a tile in the file free: the  *)
(* directories enumerated list the tiles in index order or in reverse.      *)

\* the tile offsets of a directory grow with the tile index
Ascending(ifd) ==
    \A i, j \in DOMAIN ifd.TileOffsets :
        i < j => ifd.TileOffsets[i] + ifd.TileByteCounts[i] <= ifd.TileOffsets[j]

\* tile_indices of the rows _request_merged_tiles builds, lines 421-426
RowsOfGrid ==
    {[i \in 1 .. r.xmax + 1 - r.xmin |-> r.ymin * GridW + r.xmin + (i - 1)] :
        r \in {t \in TileRanges : t.ymin = t.ymax}}

ExtractInit ==
    /\ is_masked \in BOOLEAN
    /\ nodata = [some |-> FALSE, value |-> 0]
    /\ \E gap \in Gaps :
        /\ file = FileBytes(is_masked, gap)
        /\ ifds \in {<<ImageIFD(is_masked, gap)>>, <<ImageIFDReversed(is_masked, gap)>>}
        /\ mask_ifds \in
               IF is_masked THEN {<<MaskIFD(gap)>>, <<MaskIFDReversed(gap)>>} ELSE {<<>>}
    /\ img_tiles = Metadata([xmin |-> 0, xmax |-> 0, ymin |-> 0, ymax |-> 0], 0, 0, 0, 0)
    /\ ex_indices \in RowsOfGrid
    /\ ex_response = <<>>
    /\ ex_tiles = <<>>
    /\ ex_pc \in {"image", "mask"}
    /\ ex_pc = "mask" => is_masked

\* the directory the row is cut out of: ifd or mask_ifd
ExtractIfd(kind) == IF kind = "image" THEN At(ifds, 0) ELSE At(mask_ifds, 0)

\* lines 371-375 and 382-386: the merged range request of the row is made
MergedRangeRequest(kind) ==
    /\ ex_pc = kind
    /\ LET ifd == ExtractIfd(kind)
           offset == ifd.TileOffsets[MinOf(SeqRange(ex_indices))]
           range == MergeRangeRequests(ifd, ex_indices, offset)
       IN  IF RangeReadRaises(range[1], range[2])
           THEN /\ ex_pc' = "failed"
                /\ UNCHANGED ex_response
           ELSE /\ ex_pc' = kind \o "_fetched"
                /\ ex_response' = RangeRead(file, range[1], range[2])
    /\ UNCHANGED <<ex_indices, ex_tiles, sourceVars, orchVars, ppVars, ovVars,
                   gmVars, fsVars, stVars, rqVars>>

\* lines 396 and 402-404: _extract_tile on the next tile of the row
ExtractTileCall(kind) ==
    /\ ex_pc = kind \o "_fetched"
    /\ Len(ex_tiles) < Len(ex_indices)
    /\ LET ifd == ExtractIfd(kind)
           offset == ifd.TileOffsets[MinOf(SeqRange(ex_indices))]
       IN  ex_tiles' = Append(ex_tiles,
               ExtractTile(ifd, ex_response, ex_indices[Len(ex_tiles) + 1], offset))
    /\ UNCHANGED <<ex_indices, ex_response, ex_pc, sourceVars, orchVars, ppVars,
                   ovVars, gmVars, fsVars, stVars, rqVars>>

NextExtract ==
    \/ \E kind \in {"image", "mask"} : MergedRangeRequest(kind)
    \/ \E kind \in {"image", "mask"} : ExtractTileCall(kind)

InitExtract ==
    ExtractInit /\ OrchIdle /\ PostIdle /\ OverviewIdle /\ GeometryIdle /\ FsIdle
        /\ StitchIdle /\ StoreIdle

SpecExtract == InitExtract /\ [][NextExtract]_vars

\* the directory of the row at hand
ExtractedFrom ==
    IF ex_pc \in {"image", "image_fetched"} THEN At(ifds, 0) ELSE At(mask_ifds, 0)

\* tile number i of the row was cut out of the merged response as the file
\* holds it, from inside the response
CutIsTile(ifd, i) ==
    LET tile_index == ex_indices[i]
        local == ifd.TileOffsets[tile_index]
                     - ifd.TileOffsets[MinOf(SeqRange(ex_indices))]
    IN  /\ ex_tiles[i] = RangeRead(file, ifd.TileOffsets[tile_index],
                                   ifd.TileByteCounts[tile_index] - 1)
        /\ Len(ex_tiles[i]) = ifd.TileByteCounts[tile_index]
        /\ 0 <= local
        /\ local + ifd.TileByteCounts[tile_index] <= Len(ex_response)

\* C20: for every tile of a merged row the bytes _extract_tile cuts out of the
\* merged response (local start = tile_offset - row_start_offset, length = the
\* tile's byte count) are the file bytes [tile_offset, tile_offset +
\* tile_byte_count - 1], those a range request for the tile alone returns, and
\* the slice lies inside the fetched merged range.
C20_SliceIsTile ==
    ex_pc \in {"image_fetched", "mask_fetched"} =>
        \A i \in DOMAIN ex_tiles : CutIsTile(ExtractedFrom, i)

\* not a claim: the same on directories that list the tiles in index order
SliceIsTileWhenAscending ==
    Ascending(ExtractedFrom) => C20_SliceIsTile

----------------------------------------------------------------------------
(* filesystems.py: _range_request of the three backends.  The transport of  *)
(* LocalFilesystem is the open file (seek, read); the transport of          *)
(* HttpFilesystem and S3Filesystem is a server that is sent a Range header  *)
(* and reads it as RFC 7233 says: bytes=first-last, both inclusive.         *)

\* the largest start and the largest offset of a range request
MaxStart == 8
MaxOffset == 4

Backends == {"local", "http", "s3"}

\* str(n) of Python for an integer, as the sequence of its characters
DigitChars == <<"0", "1", "2", "3", "4", "5", "6", "7", "8", "9">>

RECURSIVE Str(_)
Str(n) ==
    IF n < 0 THEN <<"-">> \o Str(-n)
    ELSE IF n < 10 THEN <<DigitChars[n + 1]>>
    ELSE Str(n \div 10) \o <<DigitChars[(n % 10) + 1]>>

\* line 255 reading one byte less
ReadLengthShort(offset) == offset

\* line 255: the length handed to read
ReadLength(offset) == offset + 1

\* f"bytes={start}-{start + offset - 1}": a header with an exclusive end
RangeHeaderExclusive(start, offset) ==
    <<"b", "y", "t", "e", "s", "=">> \o Str(start) \o <<"-">> \o Str(start + offset - 1)

\* lines 168 and 292: f"bytes={start}-{start + offset}"
RangeHeader(start, offset) ==
    <<"b", "y", "t", "e", "s", "=">> \o Str(start) \o <<"-">> \o Str(start + offset)

\* the server's reading of a decimal number
RECURSIVE ParseInt(_)
ParseInt(chars) ==
    IF chars = <<>> THEN 0
    ELSE 10 * ParseInt(SubSeq(chars, 1, Len(chars) - 1))
         + (CHOOSE d \in 0 .. 9 : DigitChars[d + 1] = chars[Len(chars)])

\* the server's reading of "bytes=first-last": <<first, last>>, or <<>> when
\* the header is no byte range
ParseRange(header) ==
    LET unit == 6
        dashes == {i \in unit + 1 .. Len(header) : header[i] = "-"}
        digits(chars) == chars # <<>> /\ \A i \in DOMAIN chars :
                             \E d \in 1 .. 10 : DigitChars[d] = chars[i]
    IN  IF Cardinality(dashes) # 1 THEN <<>>
        ELSE LET dash == CHOOSE i \in dashes : TRUE
                 first == SubSeq(header, unit + 1, dash - 1)
                 last == SubSeq(header, dash + 1, Len(header))
             IN  IF digits(first) /\ digits(last)
                 THEN <<ParseInt(first), ParseInt(last)>>
                 ELSE <<>>

\* the bytes of the file in the inclusive interval, cut at the end of the file
BytesOf(bytes, interval) ==
    IF interval = <<>> THEN <<>>
    ELSE SubSeq(bytes, interval[1] + 1, Min(interval[2] + 1, Len(bytes)))

FsInit ==
    /\ is_masked = FALSE
    /\ nodata = [some |-> FALSE, value |-> 0]
    /\ ifds = <<ImageIFD(FALSE, 1)>>
    /\ mask_ifds = <<>>
    /\ file = FileBytes(FALSE, 1)
    /\ img_tiles = Metadata([xmin |-> 0, xmax |-> 0, ymin |-> 0, ymax |-> 0], 0, 0, 0, 0)
    /\ fs_backend \in Backends
    /\ fs_start \in 0 .. MaxStart
    /\ fs_offset \in 0 .. MaxOffset
    /\ fs_asked = <<>>
    /\ fs_data = <<>>
    /\ fs_pc = "idle"

\* the server answers a range it cannot satisfy with an error status
Unsatisfiable(bytes, interval) ==
    interval = <<>> \/ interval[1] >= Len(bytes) \/ interval[2] < interval[1]

\* LocalFilesystem._range_request lines 251-263
LocalRangeRequest ==
    /\ fs_pc = "idle"
    /\ fs_backend = "local"
    /\ fs_asked' = <<fs_start, fs_start + ReadLength(fs_offset) - 1>>
    /\ fs_data' = RangeRead(file, fs_start, ReadLength(fs_offset) - 1)
    /\ fs_pc' = "done"
    /\ UNCHANGED <<fs_backend, fs_start, fs_offset, sourceVars, orchVars, ppVars,
                   ovVars, gmVars, exVars, stVars, rqVars>>

\* the answer of a server to a Range header: lines 169-176 and 291-313
ServerRangeRequest ==
    LET asked == ParseRange(RangeHeader(fs_start, fs_offset))
    IN  /\ fs_asked' = asked
        /\ IF Unsatisfiable(file, asked)
           THEN fs_pc' = "failed" /\ UNCHANGED fs_data
           ELSE fs_pc' = "done" /\ fs_data' = BytesOf(file, asked)
        /\ UNCHANGED <<fs_backend, fs_start, fs_offset, sourceVars, orchVars, ppVars,
                       ovVars, gmVars, exVars, stVars, rqVars>>

\* HttpFilesystem._range_request lines 166-176
HttpRangeRequest ==
    /\ fs_pc = "idle"
    /\ fs_backend = "http"
    /\ ServerRangeRequest

\* S3Filesystem._range_request lines 285-313
S3RangeRequest ==
    /\ fs_pc = "idle"
    /\ fs_backend = "s3"
    /\ ServerRangeRequest

NextFs == LocalRangeRequest \/ HttpRangeRequest \/ S3RangeRequest

InitFs ==
    FsInit /\ OrchIdle /\ PostIdle /\ OverviewIdle /\ GeometryIdle /\ ExtractIdle
        /\ StitchIdle /\ StoreIdle

SpecFs == InitFs /\ [][NextFs]_vars

\* C18: on every backend a range request with arguments (start,
\* length_minus_one) asks the transport for exactly the inclusive byte interval
\* [start, start + length_minus_one], that is length_minus_one + 1 bytes from
\* byte start on, and what it returns are the file's bytes in that interval.
C18_AsksInclusiveInterval ==
    fs_pc # "idle" =>
        /\ fs_asked = <<fs_start, fs_start + fs_offset>>
        /\ fs_asked[2] - fs_asked[1] + 1 = fs_offset + 1
        /\ fs_pc = "done" =>
               fs_data = BytesOf(file, <<fs_start, fs_start + fs_offset>>)

C18_Witness ==
    /\ fs_pc = "done"
    /\ fs_backend = "s3"
    /\ fs_start + fs_offset >= 10
    /\ Len(fs_data) = fs_offset + 1
    /\ fs_offset >= 2

----------------------------------------------------------------------------
(* A partial read from its first step to its result: the overview level is  *)
(* selected, the tile range computed, the Mosaic Buffer allocated and       *)
(* filled by one of the two orchestrators, and the mosaic post-processed to *)
(* the requested shape.  The image has no overviews.                        *)

ReadStrategies ==
    {s \in Strategies : s.name = "AUTO" \/ (s.name = "" /\ s.number \in {-1, 101})}

\* request bounds over the tile range r of a level with pixel size a: from the
\* left edge of the range or one pixel inside it, up to two epsilons before
\* its right and lower edge
ReadWindow(r, inset, a) ==
    <<(r.xmin * TileWidth + inset) * a,
      -((r.ymax + 1) * TileHeight * a - 2 * (a \div EpsInv)),
      (r.xmax + 1) * TileWidth * a - 2 * (a \div EpsInv),
      -(r.ymin * TileHeight * a)>>

ReadWindows(a) == {ReadWindow(r, inset, a) : r \in TileRanges, inset \in {0, 1}}

ReadShapes == {<<1, 1>>, <<MaxOut, MaxOut>>}

ReadInit ==
    /\ is_masked \in BOOLEAN
    /\ nodata \in NoData
    /\ ifds = <<ImageIFD(is_masked, 0)>>
    /\ mask_ifds = MaskIfdsOf(is_masked, 0)
    /\ file = FileBytes(is_masked, 0)
    /\ img_tiles = Metadata([xmin |-> 0, xmax |-> 0, ymin |-> 0, ymax |-> 0], 0, 0, 0, 0)
    /\ gm_gt = [a |-> EpsInv, c |-> 0, f |-> 0]
    /\ gm_bounds = <<0, 0, 1, 1>>
    /\ gm_tiles = img_tiles
    /\ gm_pc = "idle"
    /\ ov_src_res = gm_gt.a
    /\ ov_overviews = <<>>
    /\ ov_strategy \in ReadStrategies
    /\ ov_bounds \in ReadWindows(gm_gt.a)
    /\ ov_shape \in ReadShapes
    /\ ov_level = 0
    /\ ov_pc = "idle"

\* read, up to its first await: _get_overview_level, _calculate_image_tiles,
\* and the orchestrator of the configured mode up to its gather
ReadBegin(mode) ==
    /\ ov_pc = "idle"
    /\ call = "none"
    /\ IF ~PercentageValid(ov_strategy)
       THEN /\ ov_pc' = "failed"
            /\ UNCHANGED <<ov_level, img_tiles, orchVars>>
       ELSE LET level == GetOverviewLevel(ov_src_res, ov_overviews, ov_strategy,
                                          ov_bounds, ov_shape[1])
                tiles == CalculateImageTiles(ov_bounds, gm_gt, TileWidth, TileHeight,
                                             Bands, level)
                ts == IF mode = "tiles" THEN TileTasks(tiles)
                      ELSE RowTasks(At(ifds, level), tiles)
            IN  /\ ov_pc' = "done"
                /\ ov_level' = level
                /\ img_tiles' = tiles
                /\ call' = mode
                /\ outcome' = [outcome EXCEPT ![mode] = "running"]
                /\ img_arr' = InitArray(tiles, is_masked, nodata)
                /\ tasks' = ts
                /\ requests' = <<>>
                /\ stitchCount' = [p \in Positions(tiles) |-> 0]
                /\ consulted' = [n \in DOMAIN ts |-> FALSE]
                /\ UNCHANGED <<returned, fault>>
    /\ UNCHANGED <<is_masked, nodata, ifds, mask_ifds, file, ov_src_res, ov_overviews,
                   ov_strategy, ov_bounds, ov_shape, ppVars, gmVars, exVars, fsVars, stVars, rqVars>>

\* read, after the orchestrator returned: _postprocess to the requested shape
ReadPostprocess ==
    /\ call \in Modes
    /\ outcome[call] = "returned"
    /\ pp_pc = "idle"
    /\ pp_arr' = returned[call]
    /\ pp_tiles' = img_tiles
    /\ pp_out_shape' = ov_shape
    /\ IF PostprocessRaises(returned[call], img_tiles, ov_shape, is_masked, nodata)
       THEN /\ pp_pc' = "failed"
            /\ UNCHANGED pp_result
       ELSE /\ pp_pc' = "done"
            /\ pp_result' = Postprocess(returned[call], img_tiles, ov_shape,
                                        is_masked, nodata)
    /\ UNCHANGED <<sourceVars, orchVars, ovVars, gmVars, exVars, fsVars, stVars, rqVars>>

NextRead ==
    \/ \E mode \in Modes : ReadBegin(mode)
    \/ \E n \in 1 .. MaxTiles : StartTile(n)
    \/ \E n \in 1 .. MaxTiles : GetAndStitchTile(n)
    \/ \E n \in 1 .. MaxTiles : StartRow(n)
    \/ \E n \in 1 .. MaxTiles : RowResponse(n)
    \/ \E n \in 1 .. MaxTiles : RowFetched(n)
    \/ \E n \in 1 .. MaxTiles : RowTile(n)
    \/ ReturnArray
    \/ RaiseFailure
    \/ ReadPostprocess

InitRead ==
    ReadInit /\ OrchIdle /\ PostIdle /\ ExtractIdle /\ FsIdle /\ StitchIdle /\ StoreIdle

SpecRead == InitRead /\ [][NextRead]_vars

\* C13: a configured strategy percentage outside [0, 100] makes the overview
\* selection fail instead of returning a level, and it fails before any range
\* request of the read is issued: no level, no task and no request exist.
C13_BadPercentageFailsFirst ==
    (Percentage(ov_strategy) < 0 \/ Percentage(ov_strategy) > 100) =>
        /\ ov_pc \in {"idle", "failed"}
        /\ call = "none"
        /\ tasks = <<>>
        /\ requests = <<>>

C13_Witness ==
    /\ ov_pc = "failed"
    /\ Percentage(ov_strategy) = 101
    /\ requests = <<>>

\* the crop of the mosaic handed to _postprocess
CropOf(arr, tiles) == ClipArray(arr, tiles)

\* C15: for a source with no internal mask and no nodata value no stage of a
\* merged-range read attaches a mask: the array of _init_array, the mosaic
\* during and after the stitches, the crop and the resampled output are plain
\* arrays.
C15_NoMaskWithoutSource ==
    (call = "merged" /\ ~is_masked /\ ~nodata.some) =>
        /\ img_arr.kind = "ndarray"
        /\ outcome[call] = "returned" => returned[call].kind = "ndarray"
        /\ pp_pc # "idle" => CropOf(pp_arr, pp_tiles).kind = "ndarray"
        /\ pp_pc = "done" => pp_result.kind = "ndarray"

C15_Witness ==
    /\ call = "merged"
    /\ ~is_masked
    /\ ~nodata.some
    /\ pp_pc = "done"
    /\ Cols(img_tiles) >= 2
    /\ pp_tiles.tlx = 1
    /\ pp_result.shape # CropOf(pp_arr, pp_tiles).shape

\* the shape of the mask numpy shows for an array: a plain array and a masked
\* array still holding nomask have none of the shape of their values
MaskShape(arr) == IF arr.kind = "masked" /\ ~arr.nomask THEN arr.shape ELSE <<>>

\* C17: whenever the source has an internal mask or a nodata value, the mask
\* attached to the array has the shape of the value array at every stage:
\* right after _init_array, after any sequence of stitches, after _clip_array
\* and after _resample.
C17_MaskShapeAtEveryStage ==
    (call \in Modes /\ AddMask(is_masked, nodata)) =>
        /\ MaskShape(img_arr) = img_arr.shape
        /\ outcome[call] = "returned" =>
               MaskShape(returned[call]) = returned[call].shape
        /\ pp_pc # "idle" =>
               MaskShape(CropOf(pp_arr, pp_tiles)) = CropOf(pp_arr, pp_tiles).shape
        /\ pp_pc = "done" => MaskShape(pp_result) = pp_result.shape

\* not a claim: the same from the first stitch of a merged-range read on
MaskShapeOnceStitched ==
    (call = "merged" /\ AddMask(is_masked, nodata)
         /\ \E p \in Positions(img_tiles) : stitchCount[p] >= 1) =>
        /\ MaskShape(img_arr) = img_arr.shape
        /\ outcome[call] = "returned" =>
               MaskShape(returned[call]) = returned[call].shape
        /\ pp_pc # "idle" =>
               MaskShape(CropOf(pp_arr, pp_tiles)) = CropOf(pp_arr, pp_tiles).shape
        /\ pp_pc = "done" => MaskShape(pp_result) = pp_result.shape

----------------------------------------------------------------------------
(* A merged-range read of a file whose directories list the tiles in index  *)
(* order or in reverse.                                                     *)

LayoutInit ==
    /\ is_masked \in BOOLEAN
    /\ nodata \in NoData
    /\ \E gap \in Gaps :
        /\ file = FileBytes(is_masked, gap)
        /\ ifds \in {<<ImageIFD(is_masked, gap)>>, <<ImageIFDReversed(is_masked, gap)>>}
        /\ mask_ifds \in
               IF is_masked THEN {<<MaskIFD(gap)>>, <<MaskIFDReversed(gap)>>} ELSE {<<>>}
    /\ \E r \in TileRanges :
        img_tiles = Metadata(r, 0, 0, (r.xmax + 1 - r.xmin) * TileWidth,
                             (r.ymax + 1 - r.ymin) * TileHeight)

NextLayout ==
    \/ RequestMergedTiles
    \/ \E n \in 1 .. MaxTiles : StartRow(n)
    \/ \E n \in 1 .. MaxTiles : RowResponse(n)
    \/ \E n \in 1 .. MaxTiles : RowFetched(n)
    \/ \E n \in 1 .. MaxTiles : RowTile(n)
    \/ ReturnArray
    \/ RaiseFailure

InitLayout == LayoutInit /\ OrchIdle /\ PostIdle /\ OverviewIdle /\ OthersIdle

SpecLayout == InitLayout /\ [][NextLayout]_vars

\* the decoded pixels of the tile with flat index i: the file bytes its
\* directory entry names, decompressed
TilePixels(i) ==
    LET ifd == At(ifds, img_tiles.ovr_level)
    IN  Decompress(RangeRead(file, ifd.TileOffsets[i], ifd.TileByteCounts[i] - 1),
                   TileShape(img_tiles))

\* the values of the buffer slot at row idy, column idx are those of pixels
SlotHolds(arr, idx, idy, pixels) ==
    \A c \in Cells(TileShape(img_tiles)) :
        arr.data[<<c[1], idy * img_tiles.tile_height + c[2],
                   idx * img_tiles.tile_width + c[3]>>] = pixels.data[c]

\* C21: after a successful merged-range read, for every grid position
\* (idx, idy) of the tile range the buffer slot at row idy, column idx holds
\* the decoded pixels of the tile with flat index
\* (ymin + idy) * tile_grid_width + (xmin + idx), and no slot holds the pixels
\* of another tile.
C21_SlotHoldsItsTile ==
    (call = "merged" /\ outcome[call] = "returned") =>
        \A p \in Positions(img_tiles) :
            LET i == (img_tiles.ymin + p[2]) * GridW + (img_tiles.xmin + p[1])
            IN  /\ SlotHolds(returned[call], p[1], p[2], TilePixels(i))
                /\ \A j \in TileIndices \ {i} :
                       ~SlotHolds(returned[call], p[1], p[2], TilePixels(j))

\* not a claim: the same for directories that list the tiles in index order
SlotHoldsItsTileWhenAscending ==
    (Ascending(At(ifds, img_tiles.ovr_level))
         /\ (is_masked => Ascending(At(mask_ifds, img_tiles.ovr_level))))
        => C21_SlotHoldsItsTile

\* not a claim: a read of several tiles returned over directories in reverse
ReversedReadReturns ==
    /\ call = "merged"
    /\ outcome[call] = "returned"
    /\ ~Ascending(At(ifds, img_tiles.ovr_level))
    /\ Cols(img_tiles) >= 2

----------------------------------------------------------------------------
(* _stitch_image_tile on one decoded tile, whatever its shape *)

\* the shapes a decoded tile may have: every dimension 1, that of a tile of
\* the image, or one more
TileShapes ==
    {<<b, h, w>> : b \in {1, Bands, Bands + 1}, h \in {1, TileHeight, TileHeight + 1},
                   w \in {1, TileWidth, TileWidth + 1}}

\* a decoded tile of the given shape, with its mask when the image has one
DecodedOfShape(shape, masked) ==
    IF masked
    THEN MaskedArrayWith(Decompress(<<7>>, shape),
                         InvertBroadcast(DecompressMask(<<14>>, shape), shape))
    ELSE Decompress(<<7>>, shape)

StitchInit ==
    /\ is_masked \in BOOLEAN
    /\ nodata = [some |-> FALSE, value |-> 0]
    /\ ifds = <<ImageIFD(is_masked, 0)>>
    /\ mask_ifds = MaskIfdsOf(is_masked, 0)
    /\ file = FileBytes(is_masked, 0)
    /\ \E r \in TileRanges :
        img_tiles = Metadata(r, 0, 0, (r.xmax + 1 - r.xmin) * TileWidth,
                             (r.ymax + 1 - r.ymin) * TileHeight)
    /\ st_fused = InitArray(img_tiles, is_masked, nodata)
    /\ \E shape \in TileShapes : st_arr = DecodedOfShape(shape, is_masked)
    /\ st_pos = <<0, 0>>
    /\ st_pc = "idle"

\* _stitch_image_tile lines 230-250 at one grid position of the tile range
StitchImageTileCall ==
    /\ st_pc = "idle"
    /\ \E p \in Positions(img_tiles) :
        /\ st_pos' = p
        /\ IF StitchRaises(st_arr, st_fused, p[1], p[2], img_tiles.tile_width,
                           img_tiles.tile_height)
           THEN /\ st_pc' = "failed"
                /\ UNCHANGED st_fused
           ELSE /\ st_pc' = "done"
                /\ st_fused' = StitchImageTile(st_arr, st_fused, p[1], p[2],
                                               img_tiles.tile_width,
                                               img_tiles.tile_height)
    /\ UNCHANGED <<st_arr, sourceVars, orchVars, ppVars, ovVars, gmVars, exVars,
                   fsVars, rqVars>>

NextStitch == StitchImageTileCall

InitStitch ==
    StitchInit /\ OrchIdle /\ PostIdle /\ OverviewIdle /\ GeometryIdle /\ ExtractIdle
        /\ FsIdle /\ StoreIdle

SpecStitch == InitStitch /\ [][NextStitch]_vars

\* C22: stitching a decoded tile whose shape is not exactly (bands,
\* tile_height, tile_width) is fatal: the stitch fails and the Mosaic Buffer is
\* not filled from the tile.
C22_WrongShapeIsFatal ==
    (st_pc # "idle" /\ st_arr.shape # TileShape(img_tiles)) =>
        /\ st_pc = "failed"
        /\ st_fused = InitArray(img_tiles, is_masked, nodata)

\* not a claim: a tile whose shape numpy cannot broadcast into the slot fails
\* and leaves the buffer as it was; a tile of the exact shape is stitched
StitchFailsUnlessBroadcast ==
    st_pc # "idle" =>
        /\ ~Broadcasts(st_arr.shape, TileShape(img_tiles)) =>
               /\ st_pc = "failed"
               /\ st_fused = InitArray(img_tiles, is_masked, nodata)
        /\ st_arr.shape = TileShape(img_tiles) => st_pc = "done"

\* not a claim: a tile with one band only was stitched into every band
OneBandStitched ==
    /\ st_pc = "done"
    /\ st_arr.shape = <<1, TileHeight, TileWidth>>
    /\ Bands > 1
    /\ \E c \in DOMAIN st_fused.data : c[1] = 1 /\ st_fused.data[c] # 0

----------------------------------------------------------------------------
(* Filesystem.range_request on one object: calls made one after another,    *)
(* each through config_cache and the memory cache to _range_request of the  *)
(* backend.  The transport of a server backend may fail before a response   *)
(* ("connect"), with an error status ("status"), or after the response      *)
(* headers while the body is read ("body").                                 *)

\* the largest number of calls made on the object
MaxCalls == 2

StoreStarts == {0, MaxStart}
StoreOffsets == {0, MaxOffset}

Fates(backend) == IF backend = "local" THEN {"ok"} ELSE {"ok", "connect", "status", "body"}

Filepath == <<"f">>

\* line 99, key_builder: f"{args[0].filepath}-{args[1]}-{args[2]}"
CacheKey(start, offset) == Filepath \o <<"-">> \o Str(start) \o <<"-">> \o Str(offset)

\* config_cache caching every call
ShouldCacheAlways(is_header, config) == TRUE

\* config_cache lines 46-53: should_cache
ShouldCache(is_header, config) ==
    IF is_header /\ config.header THEN TRUE
    ELSE IF config.block /\ ~is_header THEN TRUE
    ELSE FALSE

\* the memory cache: lookup and store
Cached(cache, key) == \E e \in cache : e.key = key
CacheValue(cache, key) == (CHOOSE e \in cache : e.key = key).value
CachePut(cache, key, value) ==
    {e \in cache : e.key # key} \cup {[key |-> key, value |-> value]}

\* line 257: offset - start + 1
LocalBytesCounted(start, offset) == offset - start + 1

\* one more request of bytes bytes over the range <<first, last>>
Counted(counters, bytes, range) ==
    [total_requests |-> counters.total_requests + 1,
     total_bytes_requested |-> counters.total_bytes_requested + bytes,
     requested_ranges |-> Append(counters.requested_ranges, range)]

Answer(raised, data, counters) == [raised |-> raised, data |-> data, counters |-> counters]

\* LocalFilesystem._range_request lines 251-263
LocalTransport(start, offset, counters) ==
    Answer("none", RangeRead(file, start, ReadLength(offset) - 1),
           Counted(counters, LocalBytesCounted(start, offset), <<start, start + offset>>))

\* what a server that answers the Range header makes the backend count:
\* Content-Length and the interval of Content-Range
ServerCounted(start, offset, counters) ==
    LET asked == ParseRange(RangeHeader(start, offset))
        content == BytesOf(file, asked)
    IN  Counted(counters, Len(content), <<asked[1], Min(asked[2], Len(file) - 1)>>)

ServerRefuses(start, offset, fate) ==
    fate = "status" \/ Unsatisfiable(file, ParseRange(RangeHeader(start, offset)))

\* HttpFilesystem._range_request lines 166-176 with _on_request_end lines
\* 214-233, which runs when the response headers have arrived
HttpTransport(start, offset, fate, counters) ==
    IF fate = "connect" \/ ServerRefuses(start, offset, fate)
    THEN Answer("FileNotFoundError", <<>>, counters)
    ELSE IF fate = "body"
    THEN Answer("FileNotFoundError", <<>>, ServerCounted(start, offset, counters))
    ELSE Answer("none", BytesOf(file, ParseRange(RangeHeader(start, offset))),
                ServerCounted(start, offset, counters))

\* S3Filesystem._range_request lines 285-313: only object.get is inside the
\* try, and only botocore's ClientError, a service error response, is caught
S3Transport(start, offset, fate, counters) ==
    IF fate = "connect" THEN Answer("other", <<>>, counters)
    ELSE IF ServerRefuses(start, offset, fate)
    THEN Answer("FileNotFoundError", <<>>, counters)
    ELSE IF fate = "body"
    THEN Answer("other", <<>>, ServerCounted(start, offset, counters))
    ELSE Answer("none", BytesOf(file, ParseRange(RangeHeader(start, offset))),
                ServerCounted(start, offset, counters))

Transport(backend, start, offset, fate, counters) ==
    IF backend = "local" THEN LocalTransport(start, offset, counters)
    ELSE IF backend = "http" THEN HttpTransport(start, offset, fate, counters)
    ELSE S3Transport(start, offset, fate, counters)

StoreInit ==
    /\ is_masked = FALSE
    /\ nodata = [some |-> FALSE, value |-> 0]
    /\ ifds = <<ImageIFD(FALSE, 1)>>
    /\ mask_ifds = <<>>
    /\ file = FileBytes(FALSE, 1)
    /\ img_tiles = Metadata([xmin |-> 0, xmax |-> 0, ymin |-> 0, ymax |-> 0], 0, 0, 0, 0)
    /\ rq_backend \in Backends
    /\ rq_config \in [header : BOOLEAN, block : BOOLEAN]
    /\ rq_cache = {}
    /\ rq_counters = [total_requests |-> 0, total_bytes_requested |-> 0,
                      requested_ranges |-> <<>>]
    /\ rq_history = <<>>

\* range_request lines 96-108 through config_cache and aiocache's cached: the
\* cache is read when cache_read, _range_request awaited on a miss, and its
\* result stored when cache_write
RangeRequest(start, offset, is_header, fate) ==
    LET enabled == ShouldCache(is_header, rq_config)
        key == CacheKey(start, offset)
        hit == enabled /\ Cached(rq_cache, key)
        answer == Transport(rq_backend, start, offset, fate, rq_counters)
        stored == IF enabled /\ ~hit /\ answer.raised = "none"
                  THEN CachePut(rq_cache, key, answer.data)
                  ELSE rq_cache
        after == IF hit THEN rq_counters ELSE answer.counters
    IN  /\ rq_cache' = stored
        /\ rq_counters' = after
        /\ rq_history' = Append(rq_history,
               [start |-> start, offset |-> offset, is_header |-> is_header,
                fate |-> IF hit THEN "none" ELSE fate,
                attempts |-> IF hit THEN 0 ELSE 1,
                raised |-> IF hit THEN "none" ELSE answer.raised,
                data |-> IF hit THEN CacheValue(rq_cache, key) ELSE answer.data,
                before |-> rq_counters, after |-> after,
                cacheBefore |-> rq_cache, cacheAfter |-> stored])
        /\ UNCHANGED <<rq_backend, rq_config, sourceVars, orchVars, ppVars, ovVars,
                       gmVars, exVars, fsVars, stVars>>

RangeRequestOn(backend) ==
    /\ rq_backend = backend
    /\ Len(rq_history) < MaxCalls
    /\ \E start \in StoreStarts, offset \in StoreOffsets, is_header \in BOOLEAN,
          fate \in Fates(backend) :
           RangeRequest(start, offset, is_header, fate)

RangeRequestLocal == RangeRequestOn("local")
RangeRequestHttp == RangeRequestOn("http")
RangeRequestS3 == RangeRequestOn("s3")

NextStore == RangeRequestLocal \/ RangeRequestHttp \/ RangeRequestS3

InitStore ==
    StoreInit /\ OrchIdle /\ PostIdle /\ OverviewIdle /\ GeometryIdle /\ ExtractIdle
        /\ FsIdle /\ StitchIdle

SpecStore == InitStore /\ [][NextStore]_vars

\* C23: when the transport of an HTTP or S3 range request fails,
\* _range_request makes no second attempt: it raises FileNotFoundError after
\* exactly one transport call, and the failed request leaves _total_requests,
\* _total_bytes_requested and _requested_ranges as they were.
C23_FailureRaisesOnceCountsNothing ==
    rq_backend \in {"http", "s3"} =>
        \A i \in DOMAIN rq_history :
            rq_history[i].raised # "none" =>
                /\ rq_history[i].attempts = 1
                /\ rq_history[i].raised = "FileNotFoundError"
                /\ rq_history[i].after = rq_history[i].before

\* not a claim: no failed request makes a second attempt, and a request
\* refused with an error status raises FileNotFoundError and counts nothing
RefusedRaisesOnceCountsNothing ==
    \A i \in DOMAIN rq_history :
        /\ rq_history[i].attempts <= 1
        /\ rq_history[i].fate = "status" =>
               /\ rq_history[i].raised = "FileNotFoundError"
               /\ rq_history[i].after = rq_history[i].before

\* the calls that reached _range_request, in order
RECURSIVE Reached(_)
Reached(history) ==
    IF history = <<>> THEN <<>>
    ELSE (IF Head(history).attempts = 1 THEN <<Head(history)>> ELSE <<>>)
         \o Reached(Tail(history))

RECURSIVE BytesAsked(_)
BytesAsked(made) ==
    IF made = <<>> THEN 0 ELSE (Head(made).offset + 1) + BytesAsked(Tail(made))

\* C24: after any sequence of successful range requests on a LocalFilesystem
\* _total_requests is the number of requests made, _requested_ranges holds one
\* (start, start + length_minus_one) entry per request in order, and
\* _total_bytes_requested is the sum over the requests of length_minus_one + 1,
\* so it is never negative and never decreases.
C24_LocalCounters ==
    rq_backend = "local" =>
        LET made == Reached(rq_history)
        IN  /\ rq_counters.total_requests = Len(made)
            /\ rq_counters.requested_ranges =
                   [i \in DOMAIN made |-> <<made[i].start, made[i].start + made[i].offset>>]
            /\ rq_counters.total_bytes_requested = BytesAsked(made)
            /\ rq_counters.total_bytes_requested >= 0
            /\ \A i \in DOMAIN made :
                   made[i].after.total_bytes_requested
                       >= made[i].before.total_bytes_requested

\* not a claim: the number of requests and the ranges are counted as stated
LocalCountsRequestsAndRanges ==
    rq_backend = "local" =>
        LET made == Reached(rq_history)
        IN  /\ rq_counters.total_requests = Len(made)
            /\ rq_counters.requested_ranges =
                   [i \in DOMAIN made |-> <<made[i].start, made[i].start + made[i].offset>>]

\* not a claim: a local request with start > length_minus_one + 1 has lowered
\* the byte counter below zero
LocalCounterNegative ==
    /\ rq_backend = "local"
    /\ rq_counters.total_bytes_requested < 0

\* the call is one config_cache lets use the cache
CacheEnabledFor(h) ==
    (h.is_header /\ rq_config.header) \/ (~h.is_header /\ rq_config.block)

SameRange(g, h) == g.start = h.start /\ g.offset = h.offset

\* C25: range_request uses the cache for a call exactly when (is_header and
\* header caching is enabled) or (not is_header and block caching is
\* enabled): when enabled, a call with the same filepath, start and offset as
\* an earlier completed call returns the same bytes without a transport
\* request; when disabled, a call performs a transport request and neither
\* reads nor writes the cache.
C25_CacheIffEnabled ==
    \A j \in DOMAIN rq_history :
        LET h == rq_history[j]
        IN  IF CacheEnabledFor(h)
            THEN /\ \A i \in 1 .. j - 1 :
                        LET g == rq_history[i]
                        IN  (SameRange(g, h) /\ CacheEnabledFor(g) /\ g.raised = "none") =>
                                /\ h.attempts = 0
                                /\ h.raised = "none"
                                /\ h.data = g.data
                 /\ (h.attempts = 1 /\ h.raised = "none") =>
                        /\ Cached(h.cacheAfter, CacheKey(h.start, h.offset))
                        /\ CacheValue(h.cacheAfter, CacheKey(h.start, h.offset)) = h.data
            ELSE /\ h.attempts = 1
                 /\ h.cacheAfter = h.cacheBefore

C25_Witness ==
    /\ Len(rq_history) = 2
    /\ rq_config.header # rq_config.block
    /\ SameRange(rq_history[1], rq_history[2])
    /\ CacheEnabledFor(rq_history[1])
    /\ CacheEnabledFor(rq_history[2])
    /\ rq_history[1].attempts = 1
    /\ rq_history[2].attempts = 0
    /\ rq_history[2].data # <<>>
    /\ rq_history[2].after = rq_history[1].after

\* not a claim: a call made with the cache disabled went to the transport
\* although an earlier call had stored the same range
DisabledCallSkipsStoredRange ==
    /\ Len(rq_history) = 2
    /\ SameRange(rq_history[1], rq_history[2])
    /\ Cached(rq_history[2].cacheBefore, CacheKey(rq_history[2].start, rq_history[2].offset))
    /\ ~CacheEnabledFor(rq_history[2])
    /\ rq_history[2].attempts = 1

====
